---------------------------- MODULE Spec2Model ----------------------------
(***************************************************************************)
(* A model of the SAC analytics batch pipeline: the transform stage        *)
(* (etl/transform.py), the validation engine (etl/validate.py) and the KPI *)
(* calculator (kpis/kpi_calculator.py).                                    *)
(*                                                                         *)
(* A table is a sequence of rows, a row a record from column names to      *)
(* cells.  A cell is a null (pandas NaN/NaT/None), a number or a text.     *)
(* Numbers are integers: amounts are whole currency units, discount_pct is *)
(* a whole fraction (0 or 1 in range).  Quotients computed by the code are *)
(* kept exact as rationals.                                                *)
(***************************************************************************)
EXTENDS Integers, Sequences, FiniteSets, TLC

VARIABLES
    rawdir,      \* data/raw: the tables read_csv finds there, and the files missing
    pc,          \* position of run_pipeline
    raw,         \* run_pipeline's dict of loaded raw tables
    mem,         \* run_pipeline's transformed tables, by name
    processed,   \* data/processed: the names of the files written, and their tables
    vpc,         \* position of run_validation
    report,      \* the ValidationReport's results, in order of add
    kpc,         \* position of the KPICalculator
    calc,        \* the KPICalculator object (fact, dim_date, kpi_defs, eligible, results)
    calls,       \* the calls of calculate_all made on the calculator
    rag,         \* one direct call of rag_status: its arguments and result
    out          \* the table the last report method of the calculator returned

vars == <<rawdir, pc, raw, mem, processed, vpc, report, kpc, calc, calls, rag, out>>

---------------------------------------------------------------------------
(* Bounds *)

MaxFactRows == 3

MaxCalls == 2

\* the largest n passed to top_products and top_customers
MaxTopRows == 2

---------------------------------------------------------------------------
(* Cells *)

Null == [k |-> "null", n |-> 0, s |-> ""]

Num(x) == [k |-> "num", n |-> x, s |-> ""]

Str(t) == [k |-> "str", n |-> 0, s |-> t]

Bool(b) == [k |-> "bool", n |-> IF b THEN 1 ELSE 0, s |-> ""]

IsNull(c) == c.k = "null"

\* pd.to_numeric(errors="coerce"): a number stays, anything else becomes NaN
to_numeric(c) == IF c.k = "num" THEN c ELSE Null

\* Series.isin(values): membership, NaN matching NaN
isin(c, values) == \E i \in 1..Len(values) : values[i] = c

Column(df, col) == [i \in 1..Len(df) |-> df[i][col]]

\* df.dropna(subset=cols)
dropna(df, cols) == SelectSeq(df, LAMBDA r : \A c \in cols : ~IsNull(r[c]))

\* Series.duplicated(): row i repeats the value of an earlier row
duplicated(df, col, i) == \E j \in 1..(i - 1) : df[j][col] = df[i][col]

\* df.drop_duplicates(subset=[col]): the first row of each value is kept
RECURSIVE DropDupFrom(_, _, _)
DropDupFrom(df, col, i) ==
    IF i > Len(df) THEN <<>>
    ELSE (IF duplicated(df, col, i) THEN <<>> ELSE <<df[i]>>)
         \o DropDupFrom(df, col, i + 1)

drop_duplicates(df, col) == DropDupFrom(df, col, 1)

---------------------------------------------------------------------------
(* Exact quotients.  den = 0 is NaN or an infinity (no finite value).     *)

Q(a, b) == IF b < 0 THEN [num |-> -a, den |-> -b] ELSE [num |-> a, den |-> b]

QInt(a) == [num |-> a, den |-> 1]

QNaN == [num |-> 0, den |-> 0]

QFinite(q) == q.den > 0

QEq(p, q) == QFinite(p) /\ QFinite(q) /\ p.num * q.den = q.num * p.den

QLt(p, q) == QFinite(p) /\ QFinite(q) /\ p.num * q.den < q.num * p.den

QLe(p, q) == QFinite(p) /\ QFinite(q) /\ p.num * q.den <= q.num * p.den

Min(a, b) == IF a < b THEN a ELSE b

\* floor of a / b for b > 0
FloorDiv(a, b) == a \div b

\* round-half-even of a / b for b > 0
RoundHalfEven(a, b) ==
    LET f == FloorDiv(a, b)
        r == a - f * b
    IN  IF 2 * r < b THEN f
        ELSE IF 2 * r > b THEN f + 1
        ELSE IF f % 2 = 0 THEN f ELSE f + 1

\* round(value, d) with scale = 10^d: the nearest multiple of 1/scale
RoundTo(q, scale) ==
    IF ~QFinite(q) THEN q
    ELSE [num |-> RoundHalfEven(q.num * scale, q.den), den |-> scale]

---------------------------------------------------------------------------
(* Text functions of pandas' .str accessor, on the texts the model uses.   *)
(* A text without surrounding blanks, already title-cased or already       *)
(* lower-cased is its own image.                                           *)

strip(t) ==
    CASE t = " acme corp " -> "acme corp"
      [] t = " Ann "       -> "Ann"
      [] t = " Berlin "    -> "Berlin"
      [] OTHER             -> t

title(t) ==
    CASE t = "acme corp" -> "Acme Corp"
      [] OTHER           -> t

lower(t) ==
    CASE t = "Enterprise" -> "enterprise"
      [] t = "ENTERPRISE" -> "enterprise"
      [] t = "Mid-Market" -> "mid-market"
      [] t = "SMB"        -> "smb"
      [] t = "Startup"    -> "startup"
      [] t = "Other"      -> "other"
      [] OTHER            -> t

\* Series.str.<f>(): applied to texts, NaN for everything else
str_strip(c) == IF c.k = "str" THEN Str(strip(c.s)) ELSE Null

str_title(c) == IF c.k = "str" THEN Str(title(c.s)) ELSE Null

str_lower(c) == IF c.k = "str" THEN Str(lower(c.s)) ELSE Null

\* Series.fillna(other): the other column's cell where this one is NaN
fillna(c, other) == IF IsNull(c) THEN other ELSE c

---------------------------------------------------------------------------
(* etl/transform.py *)

TABLES == <<"dim_date", "dim_product", "dim_customer", "dim_employee",
            "dim_region", "fact_sales">>

TableNames == {TABLES[i] : i \in 1..Len(TABLES)}

\* transform_dim_date without drop_duplicates
transform_dim_date_KeepDuplicates(df) == df

transform_dim_date(df) == drop_duplicates(df, "date_key")

\* pd.cut(m, bins=[0, 20, 40, 60, 100], right=True) of
\* m = (list_price - unit_cost) / list_price * 100; NaN outside (0, 100]
margin_band(unit_cost, list_price) ==
    IF IsNull(unit_cost) \/ IsNull(list_price) \/ list_price.n = 0 THEN Null
    ELSE LET m == Q((list_price.n - unit_cost.n) * 100, list_price.n)
         IN  IF QLe(m, QInt(0)) THEN Null
             ELSE IF QLe(m, QInt(20)) THEN Str("Low (<20%)")
             ELSE IF QLe(m, QInt(40)) THEN Str("Medium (20-40%)")
             ELSE IF QLe(m, QInt(60)) THEN Str("High (40-60%)")
             ELSE IF QLe(m, QInt(100)) THEN Str("Premium (>60%)")
             ELSE Null

ProductRow(r) ==
    LET uc == to_numeric(r.unit_cost)
        lp == to_numeric(r.list_price)
    IN  [product_key |-> r.product_key, product_id |-> r.product_id,
         product_name |-> r.product_name, category |-> r.category,
         unit_cost |-> uc, list_price |-> lp,
         margin_band |-> margin_band(uc, lp)]

transform_dim_product(df) ==
    dropna([i \in 1..Len(df) |-> ProductRow(df[i])], {"unit_cost", "list_price"})

segment_map(c) ==
    CASE c = Str("enterprise") -> Str("Enterprise")
      [] c = Str("mid-market") -> Str("Mid-Market")
      [] c = Str("smb")        -> Str("SMB")
      [] c = Str("startup")    -> Str("Startup")
      [] OTHER                 -> Null

\* transform_dim_customer's row without the fillna of the unmapped labels
CustomerRow_Unfilled(r) ==
    [r EXCEPT !.customer_name = str_title(str_strip(r.customer_name)),
              !.segment = segment_map(str_lower(r.segment))]

CustomerRow(r) ==
    [r EXCEPT !.customer_name = str_title(str_strip(r.customer_name)),
              !.segment = fillna(segment_map(str_lower(r.segment)), r.segment)]

transform_dim_customer(df) == [i \in 1..Len(df) |-> CustomerRow(df[i])]

EmployeeRow(r) == [r EXCEPT !.full_name = str_strip(r.full_name)]

transform_dim_employee(df) == [i \in 1..Len(df) |-> EmployeeRow(df[i])]

RegionRow(r) ==
    [r EXCEPT !.country = str_strip(r.country), !.region = str_strip(r.region),
              !.sub_region = str_strip(r.sub_region), !.city = str_strip(r.city)]

transform_dim_region(df) == [i \in 1..Len(df) |-> RegionRow(df[i])]

\* a / b * 100 of two float cells, rounded to 2 decimals: NaN when a cell is
\* NaN or both are 0, an infinity when only b is 0
PctOf(a, b) ==
    IF IsNull(a) \/ IsNull(b) THEN QNaN
    ELSE IF b.n = 0 THEN
        (IF a.n = 0 THEN QNaN ELSE [num |-> IF a.n > 0 THEN 1 ELSE -1, den |-> 0])
    ELSE RoundTo(Q(a.n * 100, b.n), 100)

\* quantity * unit_price * discount_pct, rounded to 2 decimals
discount_impact(r) ==
    IF IsNull(r.quantity) \/ IsNull(r.unit_price) \/ IsNull(r.discount_pct) THEN QNaN
    ELSE RoundTo(QInt(r.quantity.n * r.unit_price.n * r.discount_pct.n), 100)

\* is_revenue_eligible as a list of the statuses that earn revenue
is_revenue_eligible_DeliveredOnly(r) ==
    Bool(r.order_status \in {Str("Delivered"), Str("Shipped")})

\* df["order_status"] != "Cancelled"
is_revenue_eligible(r) == Bool(r.order_status # Str("Cancelled"))

\* the numeric casts of transform_fact_sales
CastFactRow(r) ==
    [r EXCEPT !.quantity = to_numeric(r.quantity),
              !.unit_price = to_numeric(r.unit_price),
              !.discount_pct = to_numeric(r.discount_pct),
              !.sales_amount = to_numeric(r.sales_amount),
              !.cogs = to_numeric(r.cogs),
              !.gross_margin = to_numeric(r.gross_margin),
              !.target_amount = to_numeric(r.target_amount)]

\* FkValid with the region membership left out of the mask
FkValid_NoRegion(r, dim_date, dim_product, dim_customer, dim_employee, dim_region) ==
    /\ isin(r.date_key, Column(dim_date, "date_key"))
    /\ isin(r.product_key, Column(dim_product, "product_key"))
    /\ isin(r.customer_key, Column(dim_customer, "customer_key"))
    /\ isin(r.employee_key, Column(dim_employee, "employee_key"))

\* the mask of the foreign-key filter
FkValid(r, dim_date, dim_product, dim_customer, dim_employee, dim_region) ==
    /\ isin(r.date_key, Column(dim_date, "date_key"))
    /\ isin(r.product_key, Column(dim_product, "product_key"))
    /\ isin(r.customer_key, Column(dim_customer, "customer_key"))
    /\ isin(r.employee_key, Column(dim_employee, "employee_key"))
    /\ isin(r.region_key, Column(dim_region, "region_key"))

\* the derived columns, with gross_margin overwritten by sales_amount - cogs
DeriveFactRow_MarginRecomputed(r) ==
    [sales_key |-> r.sales_key, order_id |-> r.order_id,
     date_key |-> r.date_key, product_key |-> r.product_key,
     customer_key |-> r.customer_key, employee_key |-> r.employee_key,
     region_key |-> r.region_key, quantity |-> r.quantity,
     unit_price |-> r.unit_price, discount_pct |-> r.discount_pct,
     sales_amount |-> r.sales_amount, cogs |-> r.cogs,
     gross_margin |-> Num(r.sales_amount.n - r.cogs.n), target_amount |-> r.target_amount,
     order_status |-> r.order_status,
     gross_margin_pct |-> PctOf(r.gross_margin, r.sales_amount),
     target_attainment_pct |-> PctOf(r.sales_amount, r.target_amount),
     discount_impact |-> discount_impact(r),
     is_revenue_eligible |-> is_revenue_eligible(r)]

\* the derived columns of transform_fact_sales
DeriveFactRow(r) ==
    [sales_key |-> r.sales_key, order_id |-> r.order_id,
     date_key |-> r.date_key, product_key |-> r.product_key,
     customer_key |-> r.customer_key, employee_key |-> r.employee_key,
     region_key |-> r.region_key, quantity |-> r.quantity,
     unit_price |-> r.unit_price, discount_pct |-> r.discount_pct,
     sales_amount |-> r.sales_amount, cogs |-> r.cogs,
     gross_margin |-> r.gross_margin, target_amount |-> r.target_amount,
     order_status |-> r.order_status,
     gross_margin_pct |-> PctOf(r.gross_margin, r.sales_amount),
     target_attainment_pct |-> PctOf(r.sales_amount, r.target_amount),
     discount_impact |-> discount_impact(r),
     is_revenue_eligible |-> is_revenue_eligible(r)]

\* transform_fact_sales with quantity missing from the dropna subset
transform_fact_sales_QuantityKept(df, dim_date, dim_product, dim_customer, dim_employee, dim_region) ==
    LET cast    == [i \in 1..Len(df) |-> CastFactRow(df[i])]
        kept    == SelectSeq(cast, LAMBDA r : FkValid(r, dim_date, dim_product,
                                 dim_customer, dim_employee, dim_region))
        derived == [i \in 1..Len(kept) |-> DeriveFactRow(kept[i])]
    IN  dropna(derived, {"sales_amount", "cogs"})

transform_fact_sales(df, dim_date, dim_product, dim_customer, dim_employee, dim_region) ==
    LET cast    == [i \in 1..Len(df) |-> CastFactRow(df[i])]
        kept    == SelectSeq(cast, LAMBDA r : FkValid(r, dim_date, dim_product,
                                 dim_customer, dim_employee, dim_region))
        derived == [i \in 1..Len(kept) |-> DeriveFactRow(kept[i])]
    IN  dropna(derived, {"sales_amount", "cogs", "quantity"})

\* DataFrame.to_csv then pd.read_csv: the texts read_csv takes for missing
\* values come back as NaN
NaTexts == {"", "NA", "N/A", "NaN", "null", "None"}

read_csv_cell(c) == IF c.k = "str" /\ c.s \in NaTexts THEN Null ELSE c

read_csv_row(r) ==
    [c \in DOMAIN r |-> IF "k" \in DOMAIN r[c] THEN read_csv_cell(r[c]) ELSE r[c]]

\* save_processed followed by a later load of the same file
csv_round_trip(df) == [i \in 1..Len(df) |-> read_csv_row(df[i])]

---------------------------------------------------------------------------
(* The raw tables.  Each candidate row departs from a clean row in a few   *)
(* columns; a raw table is a short sequence of candidate rows.             *)

DateRow(key, month) ==
    [date_key |-> key, full_date |-> Str("2025-01-15"), year |-> Num(2025),
     month_number |-> Num(month), month_name |-> Str("Month"),
     quarter |-> Str("Q1"), day_of_month |-> Num(15)]

RawProduct(key, unit_cost, list_price) ==
    [product_key |-> key, product_id |-> Str("PRD-1"), product_name |-> Str("Widget"),
     category |-> Str("Hardware"), unit_cost |-> unit_cost, list_price |-> list_price]

RawCustomer(key, name, segment) ==
    [customer_key |-> key, customer_id |-> Str("CUST-1"),
     customer_name |-> name, segment |-> segment]

RawEmployee(key, name) ==
    [employee_key |-> key, employee_id |-> Str("EMP-1"),
     full_name |-> name, department |-> Str("Sales")]

RawRegion(key, city) ==
    [region_key |-> key, country |-> Str("Germany"), region |-> Str("EMEA"),
     sub_region |-> Str("DACH"), city |-> city, currency |-> Str("EUR")]

RawFact(sales_key, order_id, sales_amount, order_status) ==
    [sales_key |-> sales_key, order_id |-> order_id,
     date_key |-> Num(1), product_key |-> Num(1), customer_key |-> Num(1),
     employee_key |-> Num(1), region_key |-> Num(1),
     quantity |-> Num(2), unit_price |-> Num(50), discount_pct |-> Num(0),
     sales_amount |-> sales_amount, cogs |-> Num(60), gross_margin |-> Num(40),
     target_amount |-> Num(100), order_status |-> order_status]

CleanFact == RawFact(Num(1), Str("ORD-1"), Num(100), Str("Delivered"))

DateRows == {DateRow(Num(1), 1), DateRow(Num(2), 2), DateRow(Num(1), 2),
             DateRow(Null, 2)}

ProductRows == {RawProduct(Num(1), Num(60), Num(100)),
                RawProduct(Num(2), Num(30), Num(100)),
                RawProduct(Num(2), Null, Num(100)),
                RawProduct(Num(2), Num(60), Str("n/a")),
                RawProduct(Num(1), Num(120), Num(100)),
                RawProduct(Null, Num(90), Num(100))}

CustomerRows == {RawCustomer(Num(1), Str(" acme corp "), Str("enterprise")),
                 RawCustomer(Num(2), Str("Beta"), Str("SMB")),
                 RawCustomer(Num(2), Str("Beta"), Str("Other")),
                 RawCustomer(Num(1), Str("Gamma"), Str("ENTERPRISE")),
                 RawCustomer(Null, Str("Gamma"), Null)}

EmployeeRows == {RawEmployee(Num(1), Str(" Ann ")), RawEmployee(Num(2), Str("Bob")),
                 RawEmployee(Null, Null)}

RegionRows == {RawRegion(Num(1), Str(" Berlin ")), RawRegion(Num(2), Str("Bonn")),
               RawRegion(Null, Str("Bonn"))}

FactRows ==
    {CleanFact,
     RawFact(Num(2), Str("ORD-1"), Num(50), Str("Shipped")),
     RawFact(Num(2), Str("ORD-2"), Num(30), Str("Cancelled")),
     RawFact(Null, Null, Num(20), Str("cancelled")),
     RawFact(Num(3), Str("ORD-3"), Str("abc"), Str("Delivered")),
     [CleanFact EXCEPT !.sales_key = Num(4), !.date_key = Num(2),
                       !.product_key = Num(2), !.gross_margin = Num(120)],
     [CleanFact EXCEPT !.date_key = Null, !.sales_amount = Num(-10)],
     [CleanFact EXCEPT !.customer_key = Num(2), !.employee_key = Num(2),
                       !.region_key = Num(2), !.order_id = Str("ORD-2"),
                       !.order_status = Null],
     [CleanFact EXCEPT !.cogs = Null],
     [CleanFact EXCEPT !.quantity = Str("two")]}

\* the candidate rows that differ in their foreign keys
KeyFactRows == {r \in FactRows : r.sales_key \in {Num(1), Num(4)} /\ r.cogs = Num(60)
                                  /\ r.quantity = Num(2)}

\* the tables of one or two rows of a set
Upto2(rows) == {<<r>> : r \in rows} \cup {<<r1, r2>> : r1 \in rows, r2 \in rows}

\* the tables of at most n rows of a set
RECURSIVE UpTo(_, _)
UpTo(rows, n) ==
    IF n = 0 THEN {<<>>}
    ELSE LET shorter == UpTo(rows, n - 1)
         IN  shorter \cup {Append(t, r) : t \in {u \in shorter : Len(u) = n - 1}, r \in rows}

CleanDims ==
    [dim_date     |-> <<DateRow(Num(1), 1), DateRow(Num(2), 2)>>,
     dim_product  |-> <<RawProduct(Num(1), Num(60), Num(100)),
                        RawProduct(Num(2), Num(30), Num(100))>>,
     dim_customer |-> <<RawCustomer(Num(1), Str(" acme corp "), Str("enterprise")),
                        RawCustomer(Num(2), Str("Beta"), Str("SMB"))>>,
     dim_employee |-> <<RawEmployee(Num(1), Str(" Ann ")), RawEmployee(Num(2), Str("Bob"))>>,
     dim_region   |-> <<RawRegion(Num(1), Str(" Berlin ")), RawRegion(Num(2), Str("Bonn"))>>]

\* the raw dimension tables: one table is arbitrary, the other four are clean
RawDims ==
    {[CleanDims EXCEPT !.dim_date = t] : t \in Upto2(DateRows)}
    \cup {[CleanDims EXCEPT !.dim_product = t] : t \in Upto2(ProductRows)}
    \cup {[CleanDims EXCEPT !.dim_customer = t] : t \in Upto2(CustomerRows)}
    \cup {[CleanDims EXCEPT !.dim_employee = t] : t \in Upto2(EmployeeRows)}
    \cup {[CleanDims EXCEPT !.dim_region = t] : t \in Upto2(RegionRows)}

WithFact(dims, fact) ==
    [dim_date |-> dims.dim_date, dim_product |-> dims.dim_product,
     dim_customer |-> dims.dim_customer, dim_employee |-> dims.dim_employee,
     dim_region |-> dims.dim_region, fact_sales |-> fact]

NoTables == WithFact([t \in {"dim_date", "dim_product", "dim_customer", "dim_employee",
                             "dim_region"} |-> <<>>], <<>>)

---------------------------------------------------------------------------
(* etl/generate_sample_data.py.  The generator's amounts are kept in cents *)
(* and its discount in hundredths, so that round(x, 2) is a rounding to a  *)
(* whole number.  The configuration is scaled down; every random draw is   *)
(* an argument.                                                            *)

N_PRODUCTS == 2

N_CUSTOMERS == 2

N_EMPLOYEES == 1

N_REGIONS == 2

\* the days from START_DATE to END_DATE
N_DAYS == 2

N_ORDERS == 2

\* the largest n_lines drawn for an order
MaxOrderLines == 2

\* round(a / b, 2) in cents for b > 0: the nearest cent; on an exact tie the
\* float that stands for a / b decides, so either neighbour can come out
Round2(a, b, ties_up) ==
    LET f == FloorDiv(a, b)
        r == a - f * b
    IN  IF 2 * r < b THEN f
        ELSE IF 2 * r > b THEN f + 1
        ELSE IF ties_up THEN f + 1 ELSE f

\* f"{prefix}{i:0Nd}" for the small i the model generates
Numbered(prefix, i) == prefix \o <<"1", "2", "3", "4", "5", "6", "7", "8", "9">>[i]

\* generate_date_dimension: one row per day from 2024-01-01
generate_date_dimension(days) ==
    [i \in 1..days |->
        [date_key |-> Num(20240100 + i), full_date |-> Str("2024-01-01"),
         year |-> Num(2024), month_number |-> Num(1), month_name |-> Str("January"),
         quarter |-> Str("Q1"), day_of_month |-> Num(i)]]

regions_data ==
    <<[sub_region |-> "Northeast US", city |-> "New York"],
      [sub_region |-> "Southeast US", city |-> "Atlanta"],
      [sub_region |-> "Midwest US", city |-> "Chicago"]>>

generate_regions(n) ==
    [i \in 1..Min(n, Len(regions_data)) |->
        [region_key |-> Num(i), country |-> Str("United States"),
         region |-> Str("North America"), sub_region |-> Str(regions_data[i].sub_region),
         city |-> Str(regions_data[i].city), currency |-> Str("USD")]]

\* the draws of one product: unit_cost in cents and the mark-up in tenths
PriceDraws == {[unit_cost |-> 5000, markup |-> 25], [unit_cost |-> 5001, markup |-> 13]}

generate_products(n, prices, ties_up) ==
    [i \in 1..n |->
        [product_key |-> Num(i), product_id |-> Str(Numbered("PRD-000", i)), product_name |-> Str("Widget"),
         category |-> Str("Hardware"),
         unit_cost |-> Num(prices[i].unit_cost),
         list_price |-> Num(Round2(prices[i].unit_cost * prices[i].markup, 10, ties_up))]]

segments == <<"Enterprise", "Mid-Market", "SMB", "Startup">>

generate_customers(n) ==
    [i \in 1..n |->
        [customer_key |-> Num(i), customer_id |-> Str(Numbered("CUST-0000", i)),
         customer_name |-> Str("Apex Corp"),
         segment |-> Str(segments[((i - 1) % Len(segments)) + 1])]]

generate_employees(n, region_keys, emp_region) ==
    [i \in 1..n |->
        [employee_key |-> Num(i), employee_id |-> Str(Numbered("EMP-00", i)),
         full_name |-> Str("James Smith"), department |-> Str("Sales"),
         region_key |-> region_keys[emp_region]]]

\* the draws of one order and of one order line, a few combinations of them
OrderDraws(date_keys, customer_keys, employee_keys, region_keys) ==
    {[date |-> date_keys[1], customer |-> customer_keys[1],
      employee |-> employee_keys[1], region |-> region_keys[1], status |-> "Delivered"],
     [date |-> date_keys[Len(date_keys)], customer |-> customer_keys[Len(customer_keys)],
      employee |-> employee_keys[Len(employee_keys)],
      region |-> region_keys[Len(region_keys)], status |-> "Cancelled"]}

LineDraws(product_keys) ==
    {[product |-> product_keys[1], quantity |-> 1, discount |-> 25, target |-> 85],
     [product |-> product_keys[Len(product_keys)], quantity |-> 3, discount |-> 5,
      target |-> 120],
     [product |-> product_keys[1], quantity |-> 2, discount |-> 0, target |-> 100]}

\* prod_lookup[product]
prod_lookup(products, product) ==
    LET i == CHOOSE j \in 1..Len(products) : products[j].product_key = product
    IN  [unit_cost |-> products[i].unit_cost.n, list_price |-> products[i].list_price.n]

\* one line with the margin taken on the list price instead of the sale
SalesLine_MarginOnListPrice(sales_key, order_num, order, line, pdata, ties_up) ==
    LET d          == line.discount
        unit_price == Round2(pdata.list_price * (200 - d), 200, ties_up)
        sales_amt  == Round2(line.quantity * unit_price * (100 - d), 100, ties_up)
        cogs       == Round2(line.quantity * pdata.unit_cost, 1, ties_up)
        gm         == Round2(line.quantity * pdata.list_price - cogs, 1, ties_up)
        target     == Round2(sales_amt * line.target, 100, ties_up)
    IN  [sales_key |-> Num(sales_key), order_id |-> Str(Numbered("ORD-00000", order_num)),
         date_key |-> order.date, product_key |-> line.product,
         customer_key |-> order.customer, employee_key |-> order.employee,
         region_key |-> order.region, quantity |-> Num(line.quantity),
         unit_price |-> Num(unit_price), discount_pct |-> Num(d),
         sales_amount |-> Num(sales_amt), cogs |-> Num(cogs), gross_margin |-> Num(gm),
         target_amount |-> Num(target), order_status |-> Str(order.status)]

\* the row generate_sales appends for one line of one order
SalesLine(sales_key, order_num, order, line, pdata, ties_up) ==
    LET d          == line.discount
        unit_price == Round2(pdata.list_price * (200 - d), 200, ties_up)
        sales_amt  == Round2(line.quantity * unit_price * (100 - d), 100, ties_up)
        cogs       == Round2(line.quantity * pdata.unit_cost, 1, ties_up)
        gm         == Round2(sales_amt - cogs, 1, ties_up)
        target     == Round2(sales_amt * line.target, 100, ties_up)
    IN  [sales_key |-> Num(sales_key), order_id |-> Str(Numbered("ORD-00000", order_num)),
         date_key |-> order.date, product_key |-> line.product,
         customer_key |-> order.customer, employee_key |-> order.employee,
         region_key |-> order.region, quantity |-> Num(line.quantity),
         unit_price |-> Num(unit_price), discount_pct |-> Num(d),
         sales_amount |-> Num(sales_amt), cogs |-> Num(cogs), gross_margin |-> Num(gm),
         target_amount |-> Num(target), order_status |-> Str(order.status)]

\* the inner loop without the increment of sales_key
RECURSIVE OrderLines_KeyRepeated(_, _, _, _, _, _)
OrderLines_KeyRepeated(sales_key, order_num, order, lines, products, ties_up) ==
    IF lines = <<>> THEN <<>>
    ELSE <<SalesLine(sales_key, order_num, order, Head(lines),
                     prod_lookup(products, Head(lines).product), ties_up)>>
         \o OrderLines_KeyRepeated(sales_key, order_num, order, Tail(lines), products,
                                   ties_up)

\* the inner loop of generate_sales: the lines of one order
RECURSIVE OrderLines(_, _, _, _, _, _)
OrderLines(sales_key, order_num, order, lines, products, ties_up) ==
    IF lines = <<>> THEN <<>>
    ELSE <<SalesLine(sales_key, order_num, order, Head(lines),
                     prod_lookup(products, Head(lines).product), ties_up)>>
         \o OrderLines(sales_key + 1, order_num, order, Tail(lines), products, ties_up)

\* the outer loop of generate_sales, from one order on
RECURSIVE SalesFrom(_, _, _, _, _)
SalesFrom(order_num, sales_key, draws, products, ties_up) ==
    IF draws = <<>> THEN <<>>
    ELSE OrderLines(sales_key, order_num, Head(draws).order, Head(draws).lines,
                    products, ties_up)
         \o SalesFrom(order_num + 1, sales_key + Len(Head(draws).lines), Tail(draws),
                      products, ties_up)

\* generate_sales: draws holds, for each of the n_orders orders, the draws
\* of the order and of its lines
generate_sales(n_orders, products, draws, ties_up) ==
    SalesFrom(1, 1, SubSeq(draws, 1, n_orders), products, ties_up)

\* the draws generate_sales can make for n_orders orders
SalesDraws(n_orders, orders, lines) ==
    [1..n_orders -> {[order |-> o, lines |-> l] :
                        o \in orders, l \in UpTo(lines, MaxOrderLines) \ {<<>>}}]

\* main: the six tables are generated and written to data/raw
GenerateSampleData ==
    /\ rawdir.missing = TableNames
    /\ \E ties_up \in BOOLEAN, prices \in [1..N_PRODUCTS -> PriceDraws],
          emp_region \in 1..N_REGIONS :
          LET dates     == generate_date_dimension(N_DAYS)
              regions   == generate_regions(N_REGIONS)
              products  == generate_products(N_PRODUCTS, prices, ties_up)
              customers == generate_customers(N_CUSTOMERS)
              employees == generate_employees(N_EMPLOYEES, Column(regions, "region_key"),
                                              emp_region)
              orders    == OrderDraws(Column(dates, "date_key"),
                                      Column(customers, "customer_key"),
                                      Column(employees, "employee_key"),
                                      Column(regions, "region_key"))
              lines     == LineDraws(Column(products, "product_key"))
          IN  \E draws \in SalesDraws(N_ORDERS, orders, lines) :
                 rawdir' = [files |-> [dim_date     |-> dates,
                                       dim_product  |-> products,
                                       dim_customer |-> customers,
                                       dim_employee |-> employees,
                                       dim_region   |-> regions,
                                       fact_sales   |->
                                           generate_sales(N_ORDERS, products, draws,
                                                          ties_up)],
                            missing |-> {}]
    /\ UNCHANGED <<pc, raw, mem, processed, vpc, report, kpc, calc, calls, rag, out>>

---------------------------------------------------------------------------
(* run_pipeline *)

\* raw = {t: load_raw(t) for t in TABLES}: the first missing file ends the
\* process with status 1, before any transform
\* the load step without load_raw's check that the file exists
LoadRaw_MissingIgnored ==
    /\ pc = "start"
    /\ pc' = "loaded"
    /\ raw' = rawdir.files
    /\ UNCHANGED <<rawdir, mem, processed, vpc, report, kpc, calc, calls, rag, out>>

LoadRaw ==
    /\ pc = "start"
    /\ IF rawdir.missing # {}
       THEN /\ pc' = "exit1"
            /\ raw' = raw
       ELSE /\ pc' = "loaded"
            /\ raw' = rawdir.files
    /\ UNCHANGED <<rawdir, mem, processed, vpc, report, kpc, calc, calls, rag, out>>

TransformDimensions ==
    /\ pc = "loaded"
    /\ pc' = "dims"
    /\ mem' = [mem EXCEPT !.dim_date     = transform_dim_date(raw.dim_date),
                          !.dim_product  = transform_dim_product(raw.dim_product),
                          !.dim_customer = transform_dim_customer(raw.dim_customer),
                          !.dim_employee = transform_dim_employee(raw.dim_employee),
                          !.dim_region   = transform_dim_region(raw.dim_region)]
    /\ UNCHANGED <<rawdir, raw, processed, vpc, report, kpc, calc, calls, rag, out>>

\* the fact step filtering against the raw dimension tables
TransformFact_RawDimensions ==
    /\ pc = "dims"
    /\ pc' = "fact"
    /\ mem' = [mem EXCEPT !.fact_sales =
                  transform_fact_sales(raw.fact_sales, raw.dim_date, raw.dim_product,
                                       raw.dim_customer, raw.dim_employee, raw.dim_region)]
    /\ UNCHANGED <<rawdir, raw, processed, vpc, report, kpc, calc, calls, rag, out>>

TransformFact ==
    /\ pc = "dims"
    /\ pc' = "fact"
    /\ mem' = [mem EXCEPT !.fact_sales =
                  transform_fact_sales(raw.fact_sales, mem.dim_date, mem.dim_product,
                                       mem.dim_customer, mem.dim_employee, mem.dim_region)]
    /\ UNCHANGED <<rawdir, raw, processed, vpc, report, kpc, calc, calls, rag, out>>

\* the six save_processed calls
SaveProcessed ==
    /\ pc = "fact"
    /\ pc' = "done"
    /\ processed' = [written |-> TableNames,
                     files   |-> [t \in TableNames |-> csv_round_trip(mem[t])]]
    /\ UNCHANGED <<rawdir, raw, mem, vpc, report, kpc, calc, calls, rag, out>>

run_pipeline == LoadRaw \/ TransformDimensions \/ TransformFact \/ SaveProcessed

---------------------------------------------------------------------------
(* kpis/kpi_calculator.py *)

OPERATORS == {">=", "<=", ">", "<", "="}

\* check(op, threshold) of rag_status; an operator outside the table is False
rag_check(value, op, threshold) ==
    CASE op = ">=" -> QLe(QInt(threshold), value)
      [] op = "<=" -> QLe(value, QInt(threshold))
      [] op = ">"  -> QLt(QInt(threshold), value)
      [] op = "<"  -> QLt(value, QInt(threshold))
      [] op = "="  -> QEq(value, QInt(threshold))
      [] OTHER     -> FALSE

\* rag_status with the good threshold graded AMBER
rag_status_GoodIsAmber(value, thresholds, direction) ==
    IF DOMAIN thresholds = {} THEN "INFO"
    ELSE IF rag_check(value, thresholds.excellent.operator, thresholds.excellent.value)
         THEN "GREEN"
    ELSE IF rag_check(value, thresholds.good.operator, thresholds.good.value)
         THEN "AMBER"
    ELSE IF rag_check(value, thresholds.warning.operator, thresholds.warning.value)
         THEN "AMBER"
    ELSE "RED"

\* rag_status grading RED first when the critical threshold is met and the
\* KPI is one where lower is better
rag_status_CriticalWhenLower(value, thresholds, direction) ==
    IF DOMAIN thresholds = {} THEN "INFO"
    ELSE IF /\ direction = "lower_is_better"
            /\ rag_check(value, thresholds.critical.operator, thresholds.critical.value)
         THEN "RED"
    ELSE IF rag_check(value, thresholds.excellent.operator, thresholds.excellent.value)
         THEN "GREEN"
    ELSE IF rag_check(value, thresholds.good.operator, thresholds.good.value)
         THEN "GREEN"
    ELSE IF rag_check(value, thresholds.warning.operator, thresholds.warning.value)
         THEN "AMBER"
    ELSE "RED"

\* thresholds is a dict: the empty one has no keys
rag_status(value, thresholds, direction) ==
    IF DOMAIN thresholds = {} THEN "INFO"
    ELSE IF rag_check(value, thresholds.excellent.operator, thresholds.excellent.value)
         THEN "GREEN"
    ELSE IF rag_check(value, thresholds.good.operator, thresholds.good.value)
         THEN "GREEN"
    ELSE IF rag_check(value, thresholds.warning.operator, thresholds.warning.value)
         THEN "AMBER"
    ELSE "RED"

\* Series.sum(): NaN cells are skipped
RECURSIVE SumCol(_, _)
SumCol(df, col) ==
    IF df = <<>> THEN 0
    ELSE (IF IsNull(Head(df)[col]) THEN 0 ELSE Head(df)[col].n) + SumCol(Tail(df), col)

\* the non-NaN cells of a column
Values(df, col) == {df[i][col] : i \in {j \in 1..Len(df) : ~IsNull(df[j][col])}}

\* Series.count(): the non-NaN cells
CountCol(df, col) == Cardinality({i \in 1..Len(df) : ~IsNull(df[i][col])})

\* nunique counting every row that has a value
nunique_EveryRow(df, col) == CountCol(df, col)

\* Series.nunique()
nunique(df, col) == Cardinality(Values(df, col))

\* Series.mean(): NaN for no cells
mean(df, col) ==
    IF CountCol(df, col) = 0 THEN QNaN ELSE Q(SumCol(df, col), CountCol(df, col))

\* the join leaving a NaN date_key without a match
DateMatches_NaNUnmatched(r, dim_date) ==
    SelectSeq(dim_date, LAMBDA d : ~IsNull(d.date_key) /\ d.date_key = r.date_key)

\* the dim_date rows a fact row joins with, in dim_date's order (NaN keys match)
DateMatches(r, dim_date) == SelectSeq(dim_date, LAMBDA d : d.date_key = r.date_key)

Enriched(r, year, month_number, month_name, quarter) ==
    [sales_key |-> r.sales_key, order_id |-> r.order_id,
     date_key |-> r.date_key, product_key |-> r.product_key,
     customer_key |-> r.customer_key, employee_key |-> r.employee_key,
     region_key |-> r.region_key, quantity |-> r.quantity,
     unit_price |-> r.unit_price, discount_pct |-> r.discount_pct,
     sales_amount |-> r.sales_amount, cogs |-> r.cogs,
     gross_margin |-> r.gross_margin, target_amount |-> r.target_amount,
     order_status |-> r.order_status,
     gross_margin_pct |-> r.gross_margin_pct,
     target_attainment_pct |-> r.target_attainment_pct,
     discount_impact |-> r.discount_impact,
     is_revenue_eligible |-> r.is_revenue_eligible,
     year |-> year, month_number |-> month_number,
     month_name |-> month_name, quarter |-> quarter]

\* eligible.merge(dim_date[[...]], on="date_key", how="left"): one row per
\* matching dim_date row, one row of NaN date columns when none matches
RECURSIVE merge_left(_, _)
merge_left(left, dim_date) ==
    IF left = <<>> THEN <<>>
    ELSE LET r == Head(left)
             m == DateMatches(r, dim_date)
         IN  (IF m = <<>> THEN <<Enriched(r, Null, Null, Null, Null)>>
              ELSE [i \in 1..Len(m) |->
                      Enriched(r, m[i].year, m[i].month_number, m[i].month_name,
                               m[i].quarter)])
             \o merge_left(Tail(left), dim_date)

\* eligible_rows without the filter on the flag
eligible_rows_Unfiltered(fact) == fact

\* self.fact[self.fact["is_revenue_eligible"] == True]
eligible_rows(fact) == SelectSeq(fact, LAMBDA r : r.is_revenue_eligible = Bool(TRUE))

kpi_total_revenue(eligible) == QInt(SumCol(eligible, "sales_amount"))

\* kpi_gross_margin_pct with the quotient turned over
kpi_gross_margin_pct_Inverted(eligible) ==
    LET total_rev == SumCol(eligible, "sales_amount")
        total_gm  == SumCol(eligible, "gross_margin")
    IN  IF total_rev > 0 THEN Q(total_rev * 100, total_gm) ELSE QInt(0)

kpi_gross_margin_pct(eligible) ==
    LET total_rev == SumCol(eligible, "sales_amount")
        total_gm  == SumCol(eligible, "gross_margin")
    IN  IF total_rev > 0 THEN Q(total_gm * 100, total_rev) ELSE QInt(0)

\* the (year, month_number) groups: rows with a NaN key belong to no group
MonthKeys(eligible) ==
    {<<eligible[i].year.n, eligible[i].month_number.n>> :
        i \in {j \in 1..Len(eligible) :
                 ~IsNull(eligible[j].year) /\ ~IsNull(eligible[j].month_number)}}

MonthRevenue(eligible, ym) ==
    SumCol(SelectSeq(eligible, LAMBDA r : /\ ~IsNull(r.year) /\ ~IsNull(r.month_number)
                                          /\ <<r.year.n, r.month_number.n>> = ym),
           "sales_amount")

MonthBefore(a, b) == a[1] < b[1] \/ (a[1] = b[1] /\ a[2] < b[2])

\* the groups in (year, month_number) order
RECURSIVE SortedMonths(_)
SortedMonths(keys) ==
    IF keys = {} THEN <<>>
    ELSE LET first == CHOOSE a \in keys : \A b \in keys \ {a} : MonthBefore(a, b)
         IN  <<first>> \o SortedMonths(keys \ {first})

kpi_revenue_growth_mom(eligible) ==
    LET monthly == SortedMonths(MonthKeys(eligible))
        n       == Len(monthly)
    IN  IF n < 2 THEN QInt(0)
        ELSE LET cur  == MonthRevenue(eligible, monthly[n])
                 prev == MonthRevenue(eligible, monthly[n - 1])
             IN  IF prev > 0 THEN Q((cur - prev) * 100, prev) ELSE QInt(0)

kpi_avg_order_value(eligible) ==
    LET total_rev   == SumCol(eligible, "sales_amount")
        order_count == nunique(eligible, "order_id")
    IN  IF order_count > 0 THEN Q(total_rev, order_count) ELSE QInt(0)

\* kpi_target_attainment without the guard on its denominator
kpi_target_attainment_Unguarded(eligible) ==
    Q(SumCol(eligible, "sales_amount") * 100, SumCol(eligible, "target_amount"))

kpi_target_attainment(eligible) ==
    LET actual == SumCol(eligible, "sales_amount")
        target == SumCol(eligible, "target_amount")
    IN  IF target > 0 THEN Q(actual * 100, target) ELSE QInt(0)

kpi_total_orders(eligible) == QInt(nunique(eligible, "order_id"))

kpi_discount_rate(eligible) ==
    LET m == mean(eligible, "discount_pct")
    IN  IF QFinite(m) THEN Q(m.num * 100, m.den) ELSE QNaN

kpi_revenue_per_employee(eligible) ==
    LET total_rev == SumCol(eligible, "sales_amount")
        emp_count == nunique(eligible, "employee_key")
    IN  IF emp_count > 0 THEN Q(total_rev, emp_count) ELSE QInt(0)

kpi_customer_count(eligible) == QInt(nunique(eligible, "customer_key"))

TopN == 10

ProductRevenue(eligible, key) ==
    SumCol(SelectSeq(eligible, LAMBDA r : r.product_key = key), "sales_amount")

\* the sum of the n largest revenues of a set of product groups
RECURSIVE HeadSum(_, _, _)
HeadSum(eligible, keys, n) ==
    IF keys = {} \/ n = 0 THEN 0
    ELSE LET top == CHOOSE a \in keys : \A b \in keys :
                       ProductRevenue(eligible, a) >= ProductRevenue(eligible, b)
         IN  ProductRevenue(eligible, top) + HeadSum(eligible, keys \ {top}, n - 1)

kpi_top10_revenue_share(eligible) ==
    LET keys      == Values(eligible, "product_key")
        total_rev == HeadSum(eligible, keys, Cardinality(keys))
        top10_rev == HeadSum(eligible, keys, TopN)
    IN  IF total_rev > 0 THEN Q(top10_rev * 100, total_rev) ELSE QInt(0)

KPI_IDS == {"KPI-001", "KPI-002", "KPI-003", "KPI-004", "KPI-005",
            "KPI-006", "KPI-007", "KPI-008", "KPI-009", "KPI-010"}

\* KPI_MAP with one method left out of the dispatcher
KPI_MAP_WithoutDiscountRate == KPI_IDS \ {"KPI-007"}

\* KPI_MAP.get(kpi_id): the ids the dispatcher knows
KPI_MAP == KPI_IDS

\* fn(self) for the method KPI_MAP gives
kpi_value(kpi_id, eligible) ==
    CASE kpi_id = "KPI-001" -> kpi_total_revenue(eligible)
      [] kpi_id = "KPI-002" -> kpi_gross_margin_pct(eligible)
      [] kpi_id = "KPI-003" -> kpi_revenue_growth_mom(eligible)
      [] kpi_id = "KPI-004" -> kpi_avg_order_value(eligible)
      [] kpi_id = "KPI-005" -> kpi_target_attainment(eligible)
      [] kpi_id = "KPI-006" -> kpi_total_orders(eligible)
      [] kpi_id = "KPI-007" -> kpi_discount_rate(eligible)
      [] kpi_id = "KPI-008" -> kpi_revenue_per_employee(eligible)
      [] kpi_id = "KPI-009" -> kpi_customer_count(eligible)
      [] kpi_id = "KPI-010" -> kpi_top10_revenue_share(eligible)

\* kpi_definitions.json, kpi_catalog.kpis: the ten KPIs of the catalog, some
\* with thresholds
NoThresholds == <<>>

AtLeast(excellent, good, warning) ==
    [excellent |-> [operator |-> ">=", value |-> excellent],
     good      |-> [operator |-> ">=", value |-> good],
     warning   |-> [operator |-> ">=", value |-> warning],
     critical  |-> [operator |-> "<",  value |-> warning]]

KpiDef(id, name, thresholds) ==
    [id |-> id, name |-> name, thresholds |-> thresholds,
     trend_direction |-> "higher_is_better"]

KpiCatalog ==
    <<KpiDef("KPI-001", "Total Revenue", AtLeast(150, 100, 50)),
      KpiDef("KPI-002", "Gross Margin %", AtLeast(50, 40, 30)),
      KpiDef("KPI-003", "Revenue Growth MoM", AtLeast(10, 5, 0)),
      KpiDef("KPI-004", "Average Order Value", AtLeast(100, 75, 50)),
      KpiDef("KPI-005", "Target Attainment", AtLeast(100, 90, 75)),
      KpiDef("KPI-006", "Total Orders", NoThresholds),
      KpiDef("KPI-007", "Discount Rate", NoThresholds),
      KpiDef("KPI-008", "Revenue per Employee", NoThresholds),
      KpiDef("KPI-009", "Customer Count", NoThresholds),
      KpiDef("KPI-010", "Top 10 Revenue Share", NoThresholds)>>

\* one pass of the loop of calculate_all
KpiResult(kpi_def, eligible) ==
    LET value == kpi_value(kpi_def.id, eligible)
    IN  [kpi_id     |-> kpi_def.id,
         kpi_name   |-> kpi_def.name,
         value      |-> RoundTo(value, 10000),
         rag_status |-> rag_status(value, kpi_def.thresholds, kpi_def.trend_direction)]

\* calculate_all: a KPI the dispatcher does not know is skipped, every other
\* one appends its result to self.results
RECURSIVE calculate_all(_, _, _)
calculate_all(results, kpi_defs, eligible) ==
    IF kpi_defs = <<>> THEN results
    ELSE calculate_all(
            IF Head(kpi_defs).id \in KPI_MAP
            THEN Append(results, KpiResult(Head(kpi_defs), eligible))
            ELSE results,
            Tail(kpi_defs), eligible)

\* KPICalculator.__init__
KPICalculatorInit ==
    /\ kpc = "none"
    /\ {"fact_sales", "dim_date"} \subseteq processed.written
    /\ kpc' = "ready"
    /\ calc' = [fact     |-> processed.files.fact_sales,
                dim_date |-> processed.files.dim_date,
                kpi_defs |-> KpiCatalog,
                eligible |-> merge_left(eligible_rows(processed.files.fact_sales),
                                        processed.files.dim_date),
                results  |-> <<>>]
    /\ calls' = 0
    /\ UNCHANGED <<rawdir, pc, raw, mem, processed, vpc, report, rag, out>>

\* one call of calculate_all on the calculator
CalculateAll ==
    /\ kpc = "ready"
    /\ calls < MaxCalls
    /\ calls' = calls + 1
    /\ calc' = [calc EXCEPT !.results = calculate_all(calc.results, calc.kpi_defs,
                                                      calc.eligible)]
    /\ UNCHANGED <<rawdir, pc, raw, mem, processed, vpc, report, kpc, rag, out>>

---------------------------------------------------------------------------
(* The report methods of the calculator.  groupby sorts its group keys and *)
(* leaves out the rows whose key is NaN.                                   *)

\* a / b * 100 of two sums
Pct(a, b) == Q(a * 100, b)

\* the keys of groupby(col), ascending
RECURSIVE SortedKeys(_)
SortedKeys(keys) ==
    IF keys = {} THEN <<>>
    ELSE LET first == CHOOSE a \in keys : \A b \in keys : a.n <= b.n
         IN  <<first>> \o SortedKeys(keys \ {first})

GroupKeys(eligible, col) == SortedKeys(Values(eligible, col))

\* the rows of one group
GroupRows(eligible, col, key) == SelectSeq(eligible, LAMBDA r : r[col] = key)

\* grp.merge(dim[[key] + cols], on=key, how="left"): one row per matching
\* dimension row, one row of NaN columns when none matches
RECURSIVE merge_dim(_, _, _, _)
merge_dim(grp, dim, key, cols) ==
    IF grp = <<>> THEN <<>>
    ELSE LET r == Head(grp)
             m == SelectSeq(dim, LAMBDA d : d[key] = r[key])
         IN  (IF m = <<>> THEN <<r @@ [c \in cols |-> Null]>>
              ELSE [i \in 1..Len(m) |-> r @@ [c \in cols |-> m[i][c]]])
             \o merge_dim(Tail(grp), dim, key, cols)

\* sort_values("revenue", ascending=False), rows of equal revenue in the
\* order they had
RECURSIVE sort_revenue_desc(_)
sort_revenue_desc(rows) ==
    IF rows = <<>> THEN <<>>
    ELSE LET top == CHOOSE i \in 1..Len(rows) :
                       /\ \A j \in 1..Len(rows) : rows[j].revenue <= rows[i].revenue
                       /\ \A j \in 1..(i - 1) : rows[j].revenue < rows[i].revenue
         IN  <<rows[top]>>
             \o sort_revenue_desc([j \in 1..(Len(rows) - 1) |->
                                      IF j < top THEN rows[j] ELSE rows[j + 1]])

\* DataFrame.head(n) for n >= 0
head(rows, n) == SubSeq(rows, 1, IF n < Len(rows) THEN n ELSE Len(rows))

\* the group keys of monthly_trend: (year, month_number, month_name, quarter)
TrendKey(r) == <<r.year, r.month_number, r.month_name, r.quarter>>

TrendKeys(eligible) ==
    {TrendKey(eligible[i]) :
        i \in {j \in 1..Len(eligible) : \A c \in 1..4 : ~IsNull(TrendKey(eligible[j])[c])}}

\* the order of two group keys; month_name and quarter order the groups
\* of one (year, month_number) only
TrendBefore(a, b) == MonthBefore(<<a[1].n, a[2].n>>, <<b[1].n, b[2].n>>)

\* the group keys in the order of first appearance in the rows
RECURSIVE TrendGroups_FirstSeen(_)
TrendGroups_FirstSeen(eligible) ==
    IF eligible = <<>> THEN <<>>
    ELSE LET k    == TrendKey(Head(eligible))
             rest == SelectSeq(Tail(eligible), LAMBDA r : TrendKey(r) # k)
         IN  (IF k \in TrendKeys(eligible) THEN <<k>> ELSE <<>>)
             \o TrendGroups_FirstSeen(rest)

\* the group keys as groupby orders them
RECURSIVE TrendGroups(_)
TrendGroups(eligible) ==
    LET keys == TrendKeys(eligible)
    IN  IF keys = {} THEN <<>>
        ELSE LET first == CHOOSE a \in keys : \A b \in keys \ {a} : TrendBefore(a, b)
             IN  <<first>>
                 \o TrendGroups(SelectSeq(eligible, LAMBDA r : TrendKey(r) # first))

\* grp.agg(...).reset_index() with the two rounded columns
TrendRow(eligible, k) ==
    LET g == SelectSeq(eligible, LAMBDA r : TrendKey(r) = k)
        avg == mean(g, "discount_pct")
    IN  [year |-> k[1], month_number |-> k[2], month_name |-> k[3], quarter |-> k[4],
         revenue          |-> SumCol(g, "sales_amount"),
         gross_margin     |-> SumCol(g, "gross_margin"),
         cogs             |-> SumCol(g, "cogs"),
         orders           |-> nunique(g, "order_id"),
         customers        |-> nunique(g, "customer_key"),
         avg_discount     |-> avg,
         gross_margin_pct |-> RoundTo(Pct(SumCol(g, "gross_margin"),
                                          SumCol(g, "sales_amount")), 100),
         avg_discount_pct |-> RoundTo(Q(avg.num * 100, avg.den), 100)]

\* trend["revenue"].pct_change() * 100: NaN in the first row, then the
\* change relative to the row before
pct_change(trend, i) ==
    IF i = 1 THEN QNaN
    ELSE Q((trend[i].revenue - trend[i - 1].revenue) * 100, trend[i - 1].revenue)

\* sort_values(["year", "month_number"]), rows of one month in the order
\* they had
RECURSIVE sort_year_month(_)
sort_year_month(rows) ==
    IF rows = <<>> THEN <<>>
    ELSE LET key(i) == <<rows[i].year.n, rows[i].month_number.n>>
             low == CHOOSE i \in 1..Len(rows) :
                       /\ \A j \in 1..Len(rows) : ~MonthBefore(key(j), key(i))
                       /\ \A j \in 1..(i - 1) : MonthBefore(key(i), key(j))
         IN  <<rows[low]>>
             \o sort_year_month([j \in 1..(Len(rows) - 1) |->
                                    IF j < low THEN rows[j] ELSE rows[j + 1]])

monthly_trend(eligible) ==
    LET groups == TrendGroups(eligible)
        trend  == [i \in 1..Len(groups) |-> TrendRow(eligible, groups[i])]
        grown  == [i \in 1..Len(trend) |->
                      trend[i] @@ [revenue_growth_mom |-> pct_change(trend, i)]]
    IN  sort_year_month(grown)

\* one row of groupby("product_key").agg(...).reset_index()
ProductGroup(eligible, key) ==
    LET g == GroupRows(eligible, "product_key", key)
    IN  [product_key  |-> key,
         revenue      |-> SumCol(g, "sales_amount"),
         gross_margin |-> SumCol(g, "gross_margin"),
         orders       |-> nunique(g, "order_id"),
         quantity     |-> SumCol(g, "quantity")]

WithMarginPct(r) ==
    r @@ [gross_margin_pct |-> RoundTo(Pct(r.gross_margin, r.revenue), 100)]

\* top_products without the cut to n rows
top_products_Uncut(eligible, dim_product, n) ==
    LET keys   == GroupKeys(eligible, "product_key")
        grp    == [i \in 1..Len(keys) |-> ProductGroup(eligible, keys[i])]
        merged == merge_dim(grp, dim_product, "product_key", {"product_name", "category"})
    IN  sort_revenue_desc([i \in 1..Len(merged) |-> WithMarginPct(merged[i])])

top_products(eligible, dim_product, n) ==
    LET keys   == GroupKeys(eligible, "product_key")
        grp    == [i \in 1..Len(keys) |-> ProductGroup(eligible, keys[i])]
        merged == merge_dim(grp, dim_product, "product_key", {"product_name", "category"})
    IN  head(sort_revenue_desc([i \in 1..Len(merged) |-> WithMarginPct(merged[i])]), n)

\* one row of groupby("customer_key").agg(...).reset_index()
CustomerGroup(eligible, key) ==
    LET g == GroupRows(eligible, "customer_key", key)
    IN  [customer_key |-> key,
         revenue      |-> SumCol(g, "sales_amount"),
         orders       |-> nunique(g, "order_id")]

WithAvgOrderValue(r) ==
    r @@ [avg_order_value |-> RoundTo(Q(r.revenue, r.orders), 100)]

top_customers(eligible, dim_customer, n) ==
    LET keys   == GroupKeys(eligible, "customer_key")
        grp    == [i \in 1..Len(keys) |-> CustomerGroup(eligible, keys[i])]
        merged == merge_dim(grp, dim_customer, "customer_key", {"customer_name", "segment"})
    IN  head(sort_revenue_desc([i \in 1..Len(merged) |-> WithAvgOrderValue(merged[i])]), n)

\* one row of groupby("region_key").agg(...).reset_index()
RegionGroup(eligible, key) ==
    LET g == GroupRows(eligible, "region_key", key)
    IN  [region_key   |-> key,
         revenue      |-> SumCol(g, "sales_amount"),
         gross_margin |-> SumCol(g, "gross_margin"),
         orders       |-> nunique(g, "order_id"),
         customers    |-> nunique(g, "customer_key"),
         target       |-> SumCol(g, "target_amount")]

\* grp["revenue"].sum() of the merged rows
RECURSIVE SumRevenue(_)
SumRevenue(rows) ==
    IF rows = <<>> THEN 0 ELSE Head(rows).revenue + SumRevenue(Tail(rows))

\* the three rounded columns of regional_performance, the share left unrounded
WithRegionPcts_ShareUnscaled(r, total_rev) ==
    r @@ [revenue_share_pct     |-> RoundTo(Q(r.revenue, total_rev), 100),
          gross_margin_pct      |-> RoundTo(Pct(r.gross_margin, r.revenue), 100),
          target_attainment_pct |-> RoundTo(Pct(r.revenue, r.target), 100)]

\* the three rounded columns of regional_performance
WithRegionPcts(r, total_rev) ==
    r @@ [revenue_share_pct     |-> RoundTo(Pct(r.revenue, total_rev), 100),
          gross_margin_pct      |-> RoundTo(Pct(r.gross_margin, r.revenue), 100),
          target_attainment_pct |-> RoundTo(Pct(r.revenue, r.target), 100)]

regional_performance(eligible, dim_region) ==
    LET keys      == GroupKeys(eligible, "region_key")
        grp       == [i \in 1..Len(keys) |-> RegionGroup(eligible, keys[i])]
        merged    == merge_dim(grp, dim_region, "region_key", {"region", "country"})
        total_rev == SumRevenue(merged)
    IN  sort_revenue_desc([i \in 1..Len(merged) |-> WithRegionPcts(merged[i], total_rev)])

\* a report method is called on the calculator; top_products, top_customers
\* and regional_performance each load a dimension file first
MonthlyTrend ==
    /\ kpc = "ready"
    /\ out' = [method |-> "monthly_trend", n |-> 0, rows |-> monthly_trend(calc.eligible)]
    /\ UNCHANGED <<rawdir, pc, raw, mem, processed, vpc, report, kpc, calc, calls, rag>>

TopProducts ==
    /\ kpc = "ready"
    /\ "dim_product" \in processed.written
    /\ \E n \in 0..MaxTopRows :
          out' = [method |-> "top_products", n |-> n,
                  rows |-> top_products(calc.eligible, processed.files.dim_product, n)]
    /\ UNCHANGED <<rawdir, pc, raw, mem, processed, vpc, report, kpc, calc, calls, rag>>

TopCustomers ==
    /\ kpc = "ready"
    /\ "dim_customer" \in processed.written
    /\ \E n \in 0..MaxTopRows :
          out' = [method |-> "top_customers", n |-> n,
                  rows |-> top_customers(calc.eligible, processed.files.dim_customer, n)]
    /\ UNCHANGED <<rawdir, pc, raw, mem, processed, vpc, report, kpc, calc, calls, rag>>

RegionalPerformance ==
    /\ kpc = "ready"
    /\ "dim_region" \in processed.written
    /\ out' = [method |-> "regional_performance", n |-> 0,
               rows |-> regional_performance(calc.eligible, processed.files.dim_region)]
    /\ UNCHANGED <<rawdir, pc, raw, mem, processed, vpc, report, kpc, calc, calls, rag>>

---------------------------------------------------------------------------
(* etl/validate.py *)

\* a bound of check_value_range: None, or a number
None == QNaN

\* a check_name, kept as the parts its f-string joins: the kind of check, the
\* column, the referenced table and column of a foreign key, the bounds of a range
CheckName(kind, col, ref_table, ref_col, min_val, max_val) ==
    [kind |-> kind, col |-> col, ref_table |-> ref_table, ref_col |-> ref_col,
     min_val |-> min_val, max_val |-> max_val]

Named(kind, col) == CheckName(kind, col, "", "", None, None)

\* a ValidationResult; message is "OK" or the text of the failure without its count
ValidationResult(check_name, table, passed, message, severity, row_count) ==
    [check_name |-> check_name, table |-> table, passed |-> passed,
     message |-> message, severity |-> severity, row_count |-> row_count]

\* an add that keeps only the latest result
add_Replacing(results, result) == <<result>>

\* ValidationReport.add
add(results, result) == Append(results, result)

\* errors comparing the severity with the wrong spelling
errors_WrongCase(results) ==
    SelectSeq(results, LAMBDA r : ~r.passed /\ r.severity = "Error")

errors(results) ==
    SelectSeq(results, LAMBDA r : ~r.passed /\ r.severity = "ERROR")

warnings(results) ==
    SelectSeq(results, LAMBDA r : ~r.passed /\ r.severity = "WARNING")

passed_count(results) == Cardinality({i \in 1..Len(results) : results[i].passed})

\* print_summary returning whether nothing failed at all
print_summary_NothingFailed(results) == passed_count(results) = Len(results)

\* the value print_summary returns
print_summary(results) == Len(errors(results)) = 0

RECURSIVE check_no_nulls(_, _, _, _)
check_no_nulls(df, table, columns, results) ==
    IF columns = <<>> THEN results
    ELSE LET col        == Head(columns)
             null_count == Cardinality({i \in 1..Len(df) : IsNull(df[i][col])})
             passed     == null_count = 0
         IN  check_no_nulls(df, table, Tail(columns),
                 add(results, ValidationResult(Named("no_nulls", col), table, passed,
                        IF ~passed THEN "null values in column" ELSE "OK",
                        "ERROR", null_count)))

\* check_no_duplicates counting every occurrence of a repeated key
check_no_duplicates_EveryOccurrence(df, table, pk, results) ==
    LET dup_count == Cardinality({i \in 1..Len(df) :
                        \E j \in 1..Len(df) : j # i /\ df[j][pk] = df[i][pk]})
        passed    == dup_count = 0
    IN  add(results, ValidationResult(Named("no_duplicate_pk", pk), table, passed,
               IF ~passed THEN "duplicate values in PK" ELSE "OK",
               "ERROR", dup_count))

check_no_duplicates(df, table, pk, results) ==
    LET dup_count == Cardinality({i \in 1..Len(df) : duplicated(df, pk, i)})
        passed    == dup_count = 0
    IN  add(results, ValidationResult(Named("no_duplicate_pk", pk), table, passed,
               IF ~passed THEN "duplicate values in PK" ELSE "OK",
               "ERROR", dup_count))

check_fk_integrity(df, fk_col, ref_df, ref_col, table, ref_table, results) ==
    LET orphan_count == Cardinality({i \in 1..Len(df) :
                                       ~isin(df[i][fk_col], Column(ref_df, ref_col))})
        passed       == orphan_count = 0
    IN  add(results, ValidationResult(CheckName("fk", fk_col, ref_table, ref_col, None, None),
               table, passed,
               IF ~passed THEN "orphan FK values" ELSE "OK",
               "ERROR", orphan_count))

\* the mask of check_value_range with both bounds excluded from the range
OutOfRange_BoundsExcluded(c, min_val, max_val) ==
    /\ c.k = "num"
    /\ \/ (min_val # None /\ QLe(QInt(c.n), min_val))
       \/ (max_val # None /\ QLe(max_val, QInt(c.n)))

\* df[col] < min_val or df[col] > max_val: False for a NaN cell
OutOfRange(c, min_val, max_val) ==
    /\ c.k = "num"
    /\ \/ (min_val # None /\ QLt(QInt(c.n), min_val))
       \/ (max_val # None /\ QLt(max_val, QInt(c.n)))

check_value_range(df, table, col, min_val, max_val, results, severity) ==
    LET out_of_range == Cardinality({i \in 1..Len(df) :
                                       OutOfRange(df[i][col], min_val, max_val)})
        passed       == out_of_range = 0
    IN  add(results, ValidationResult(CheckName("range", col, "", "", min_val, max_val),
               table, passed,
               IF ~passed THEN "values outside range" ELSE "OK",
               severity, out_of_range))

validate_dim_date(df, results) ==
    LET r1 == check_no_nulls(df, "dim_date",
                 <<"date_key", "full_date", "year", "month_number">>, results)
        r2 == check_no_duplicates(df, "dim_date", "date_key", r1)
        r3 == check_value_range(df, "dim_date", "month_number", QInt(1), QInt(12), r2, "ERROR")
        r4 == check_value_range(df, "dim_date", "day_of_month", QInt(1), QInt(31), r3, "ERROR")
        r5 == check_value_range(df, "dim_date", "year", QInt(2000), QInt(2030), r4, "ERROR")
        invalid_q == {df[i].quarter : i \in 1..Len(df)}
                     \ {Str("Q1"), Str("Q2"), Str("Q3"), Str("Q4")}
    IN  add(r5, ValidationResult(Named("valid_quarter_values", ""), "dim_date",
               Cardinality(invalid_q) = 0,
               IF invalid_q # {} THEN "Invalid quarter values" ELSE "OK",
               "ERROR", Cardinality(invalid_q)))

\* a < b on two float cells: False when one is NaN
CellLt(a, b) == a.k = "num" /\ b.k = "num" /\ a.n < b.n

validate_dim_product(df, results) ==
    LET r1 == check_no_nulls(df, "dim_product",
                 <<"product_key", "product_id", "product_name", "category",
                   "unit_cost", "list_price">>, results)
        r2 == check_no_duplicates(df, "dim_product", "product_key", r1)
        r3 == check_value_range(df, "dim_product", "unit_cost", QInt(0), None, r2, "ERROR")
        r4 == check_value_range(df, "dim_product", "list_price", QInt(0), None, r3, "ERROR")
        inverted == Cardinality({i \in 1..Len(df) : CellLt(df[i].list_price, df[i].unit_cost)})
    IN  add(r4, ValidationResult(Named("list_price >= unit_cost", ""), "dim_product",
               inverted = 0,
               IF inverted # 0 THEN "products where list_price < unit_cost" ELSE "OK",
               "WARNING", inverted))

valid_segments == {Str("Enterprise"), Str("Mid-Market"), Str("SMB"), Str("Startup")}

\* validate_dim_customer recording its segment check with severity INFO
validate_dim_customer_SegmentInfo(df, results) ==
    LET r1 == check_no_nulls(df, "dim_customer",
                 <<"customer_key", "customer_id", "customer_name", "segment">>, results)
        r2 == check_no_duplicates(df, "dim_customer", "customer_key", r1)
        invalid_segs == Cardinality({i \in 1..Len(df) : df[i].segment \notin valid_segments})
    IN  add(r2, ValidationResult(Named("valid_segment_values", ""), "dim_customer",
               invalid_segs = 0,
               IF invalid_segs # 0 THEN "rows with invalid segment values" ELSE "OK",
               "INFO", invalid_segs))

validate_dim_customer(df, results) ==
    LET r1 == check_no_nulls(df, "dim_customer",
                 <<"customer_key", "customer_id", "customer_name", "segment">>, results)
        r2 == check_no_duplicates(df, "dim_customer", "customer_key", r1)
        invalid_segs == Cardinality({i \in 1..Len(df) : df[i].segment \notin valid_segments})
    IN  add(r2, ValidationResult(Named("valid_segment_values", ""), "dim_customer",
               invalid_segs = 0,
               IF invalid_segs # 0 THEN "rows with invalid segment values" ELSE "OK",
               "WARNING", invalid_segs))

validate_dim_employee(df, results) ==
    check_no_duplicates(df, "dim_employee", "employee_key",
        check_no_nulls(df, "dim_employee",
            <<"employee_key", "employee_id", "full_name", "department">>, results))

validate_dim_region(df, results) ==
    check_no_duplicates(df, "dim_region", "region_key",
        check_no_nulls(df, "dim_region",
            <<"region_key", "country", "region", "city", "currency">>, results))

valid_statuses == {Str("Open"), Str("Confirmed"), Str("Shipped"), Str("Delivered"),
                   Str("Cancelled")}

validate_fact_sales(df, dim_date, dim_product, dim_customer, dim_employee, dim_region, results) ==
    LET r1  == check_no_nulls(df, "fact_sales",
                  <<"sales_key", "order_id", "date_key", "product_key",
                    "customer_key", "region_key", "employee_key",
                    "quantity", "unit_price", "sales_amount", "cogs">>, results)
        r2  == check_no_duplicates(df, "fact_sales", "sales_key", r1)
        r3  == check_fk_integrity(df, "date_key", dim_date, "date_key",
                                  "fact_sales", "dim_date", r2)
        r4  == check_fk_integrity(df, "product_key", dim_product, "product_key",
                                  "fact_sales", "dim_product", r3)
        r5  == check_fk_integrity(df, "customer_key", dim_customer, "customer_key",
                                  "fact_sales", "dim_customer", r4)
        r6  == check_fk_integrity(df, "employee_key", dim_employee, "employee_key",
                                  "fact_sales", "dim_employee", r5)
        r7  == check_fk_integrity(df, "region_key", dim_region, "region_key",
                                  "fact_sales", "dim_region", r6)
        r8  == check_value_range(df, "fact_sales", "quantity", QInt(1), None, r7, "ERROR")
        r9  == check_value_range(df, "fact_sales", "unit_price", Q(1, 100), None, r8, "ERROR")
        r10 == check_value_range(df, "fact_sales", "discount_pct", QInt(0), QInt(1), r9, "ERROR")
        r11 == check_value_range(df, "fact_sales", "sales_amount", QInt(0), None, r10, "ERROR")
        r12 == check_value_range(df, "fact_sales", "cogs", QInt(0), None, r11, "ERROR")
        gm_anomaly == Cardinality({i \in 1..Len(df) :
                                     CellLt(df[i].sales_amount, df[i].gross_margin)})
        r13 == add(r12, ValidationResult(Named("gross_margin <= sales_amount", ""),
                      "fact_sales", gm_anomaly = 0,
                      IF gm_anomaly # 0 THEN "rows where gross_margin > sales_amount" ELSE "OK",
                      "WARNING", gm_anomaly))
        invalid_status == Cardinality({i \in 1..Len(df) :
                                         df[i].order_status \notin valid_statuses})
    IN  add(r13, ValidationResult(Named("valid_order_status", ""), "fact_sales",
               invalid_status = 0,
               IF invalid_status # 0 THEN "rows with invalid order_status" ELSE "OK",
               "ERROR", invalid_status))

\* the report run_validation builds from the six processed tables
validation_results(files) ==
    validate_fact_sales(files.fact_sales, files.dim_date, files.dim_product,
        files.dim_customer, files.dim_employee, files.dim_region,
        validate_dim_region(files.dim_region,
            validate_dim_employee(files.dim_employee,
                validate_dim_customer(files.dim_customer,
                    validate_dim_product(files.dim_product,
                        validate_dim_date(files.dim_date, <<>>))))))

\* run_validation: every check runs, then the summary decides between
\* sys.exit(1) and the PASSED announcement with return True
run_validation ==
    /\ vpc = "idle"
    /\ processed.written = TableNames
    /\ report' = validation_results(processed.files)
    /\ vpc' = IF ~print_summary(report') THEN "exit1" ELSE "passed"
    /\ UNCHANGED <<rawdir, pc, raw, mem, processed, kpc, calc, calls, rag, out>>

---------------------------------------------------------------------------
(* A direct call of rag_status, as the unit tests make it *)

Threshold(op, v) == [operator |-> op, value |-> v]

RagOperators == OPERATORS \cup {"!="}

RagLevels == {Threshold(op, v) : op \in RagOperators, v \in {1, 2, 3}}

RagThresholds ==
    {NoThresholds}
    \cup {[excellent |-> e, good |-> g, warning |-> w, critical |-> c] :
            e \in RagLevels, g \in RagLevels, w \in RagLevels,
            c \in {Threshold("<", 1), Threshold(">", 3)}}

RagValues == {QInt(v) : v \in 0..4} \cup {Q(3, 2), QNaN}

RagDirections == {"higher_is_better", "lower_is_better"}

RagCall ==
    /\ rag.result = ""
    /\ rag' = [rag EXCEPT !.result = rag_status(rag.value, rag.thresholds, rag.direction)]
    /\ UNCHANGED <<rawdir, pc, raw, mem, processed, vpc, report, kpc, calc, calls, out>>

---------------------------------------------------------------------------
(* Specifications *)

NoCalc == [fact |-> <<>>, dim_date |-> <<>>, kpi_defs |-> <<>>, eligible |-> <<>>,
           results |-> <<>>]

NoRag == [value |-> QNaN, thresholds |-> NoThresholds, direction |-> "", result |-> ""]

NoOut == [method |-> "", n |-> 0, rows |-> <<>>]

Idle ==
    /\ pc = "start"
    /\ raw = NoTables
    /\ mem = NoTables
    /\ processed = [written |-> {}, files |-> NoTables]
    /\ vpc = "idle"
    /\ report = <<>>
    /\ kpc = "none"
    /\ calc = NoCalc
    /\ calls = 0
    /\ out = NoOut

\* the raw directory: clean dimensions with an arbitrary fact table, or one
\* arbitrary dimension with a fact table that varies in its foreign keys, or
\* a directory with a file missing
InitRawDir ==
    \/ \E fact \in UpTo(FactRows, MaxFactRows) :
          rawdir = [files |-> WithFact(CleanDims, fact), missing |-> {}]
    \/ \E dims \in RawDims, fact \in UpTo(KeyFactRows, MaxFactRows) :
          rawdir = [files |-> WithFact(dims, fact), missing |-> {}]
    \/ \E t \in TableNames :
          rawdir = [files |-> WithFact(CleanDims, <<CleanFact>>), missing |-> {t}]

Init == InitRawDir /\ Idle /\ rag = NoRag

Next == run_pipeline \/ KPICalculatorInit \/ CalculateAll

Spec == Init /\ [][Next]_vars

NextValidation == run_pipeline \/ run_validation

SpecValidation == Init /\ [][NextValidation]_vars

InitRag ==
    /\ rawdir = [files |-> WithFact(CleanDims, <<CleanFact>>), missing |-> {}]
    /\ Idle
    /\ \E value \in RagValues, thresholds \in RagThresholds, direction \in RagDirections :
          rag = [value |-> value, thresholds |-> thresholds, direction |-> direction,
                 result |-> ""]

NextRag == RagCall

SpecRag == InitRag /\ [][NextRag]_vars

\* the raw directory the report methods are checked on: three months across
\* a year's end, and a fact table whose rows differ in month, product,
\* customer, region and revenue
DateRowOf(key, year, month) == [DateRow(key, month) EXCEPT !.year = Num(year)]

ReportDates ==
    <<DateRowOf(Num(1), 2024, 12), DateRowOf(Num(2), 2025, 1), DateRowOf(Num(3), 2025, 2)>>

ReportDims ==
    LET base == [CleanDims EXCEPT !.dim_date = ReportDates]
    IN  {base,
         [base EXCEPT !.dim_product =
             Append(base.dim_product, RawProduct(Num(1), Num(120), Num(100)))],
         [base EXCEPT !.dim_customer =
             Append(base.dim_customer, RawCustomer(Num(2), Str("Beta"), Str("Other")))],
         [base EXCEPT !.dim_region =
             Append(base.dim_region, RawRegion(Num(2), Str("Bonn")))]}

ReportFactRows ==
    {[CleanFact EXCEPT !.date_key = Num(2)],
     [CleanFact EXCEPT !.sales_key = Num(2), !.order_id = Str("ORD-2"),
                       !.product_key = Num(2), !.customer_key = Num(2),
                       !.region_key = Num(2), !.sales_amount = Num(50),
                       !.gross_margin = Num(-10)],
     [CleanFact EXCEPT !.sales_key = Num(3), !.order_id = Str("ORD-3"),
                       !.date_key = Num(3), !.region_key = Num(2),
                       !.sales_amount = Num(30), !.cogs = Num(20),
                       !.gross_margin = Num(10)],
     [CleanFact EXCEPT !.sales_key = Num(4), !.order_id = Str("ORD-4"),
                       !.product_key = Num(2), !.customer_key = Num(2),
                       !.sales_amount = Num(0), !.cogs = Num(0),
                       !.gross_margin = Num(0), !.target_amount = Num(0)],
     [CleanFact EXCEPT !.sales_key = Num(5), !.order_id = Str("ORD-5"),
                       !.date_key = Num(3), !.product_key = Num(2),
                       !.sales_amount = Num(70), !.order_status = Str("Cancelled")],
     [CleanFact EXCEPT !.sales_key = Num(6), !.date_key = Num(2),
                       !.product_key = Num(2), !.customer_key = Num(2)]}

InitReports ==
    /\ \E dims \in ReportDims, fact \in UpTo(ReportFactRows, MaxFactRows) :
          rawdir = [files |-> WithFact(dims, fact), missing |-> {}]
    /\ Idle
    /\ rag = NoRag

NextReports ==
    \/ run_pipeline
    \/ KPICalculatorInit
    \/ MonthlyTrend
    \/ TopProducts
    \/ TopCustomers
    \/ RegionalPerformance

SpecReports == InitReports /\ [][NextReports]_vars

\* the generator and the pipeline: nothing is in data/raw until the
\* generator has run
InitGenerator ==
    /\ rawdir = [files |-> NoTables, missing |-> TableNames]
    /\ Idle
    /\ rag = NoRag

NextGenerator == GenerateSampleData \/ run_pipeline

SpecGenerator == InitGenerator /\ [][NextGenerator]_vars

\* the fact rows the ratio KPIs are checked on: revenue of 0 and below 0, a
\* target of 0, a row without an order_id, two months, two employees and a
\* cancelled order
RatioFactRows ==
    {CleanFact,
     [CleanFact EXCEPT !.sales_key = Num(2), !.sales_amount = Num(0)],
     [CleanFact EXCEPT !.sales_key = Num(3), !.date_key = Num(2),
                       !.order_id = Str("ORD-2"), !.employee_key = Num(2),
                       !.sales_amount = Num(150)],
     [CleanFact EXCEPT !.sales_key = Num(4), !.sales_amount = Num(-10)],
     [CleanFact EXCEPT !.sales_key = Num(5), !.date_key = Num(2),
                       !.target_amount = Num(0)],
     [CleanFact EXCEPT !.sales_key = Num(6), !.order_id = Null],
     RawFact(Num(7), Str("ORD-3"), Num(30), Str("Cancelled"))}

InitRatios ==
    /\ \E fact \in UpTo(RatioFactRows, MaxFactRows) :
          rawdir = [files |-> WithFact(CleanDims, fact), missing |-> {}]
    /\ Idle
    /\ rag = NoRag

SpecRatios == InitRatios /\ [][Next]_vars

\* a processed directory as run_validation may find it, not necessarily
\* written by run_pipeline: the dim_date rows and the fact rows sit on and
\* beyond the bounds of the range checks, and a fact row refers to a product
\* dim_product does not hold
CheckedDateRows ==
    {DateRow(Num(1), 1), DateRow(Num(2), 12), DateRow(Num(2), 13), DateRow(Num(1), 0),
     [DateRow(Num(1), 1) EXCEPT !.day_of_month = Num(31), !.year = Num(2030)],
     [DateRow(Num(2), 12) EXCEPT !.day_of_month = Num(32), !.year = Num(1999)],
     [DateRow(Num(2), 12) EXCEPT !.day_of_month = Num(1), !.year = Num(2000)],
     [DateRow(Num(2), 12) EXCEPT !.month_number = Null]}

ProcessedFact(r) == read_csv_row(DeriveFactRow(CastFactRow(r)))

CheckedFactRows ==
    {ProcessedFact(CleanFact),
     ProcessedFact([CleanFact EXCEPT !.sales_key = Num(2), !.quantity = Num(1),
                                     !.discount_pct = Num(1), !.sales_amount = Num(0),
                                     !.cogs = Num(0), !.gross_margin = Num(0)]),
     ProcessedFact([CleanFact EXCEPT !.sales_key = Num(3), !.quantity = Num(0),
                                     !.unit_price = Num(0)]),
     ProcessedFact([CleanFact EXCEPT !.sales_key = Num(4), !.discount_pct = Num(2),
                                     !.sales_amount = Num(-10)]),
     ProcessedFact([CleanFact EXCEPT !.sales_key = Num(5), !.product_key = Num(3),
                                     !.cogs = Num(-1)]),
     ProcessedFact([CleanFact EXCEPT !.sales_key = Num(6), !.discount_pct = Null,
                                     !.region_key = Null])}

CleanProcessed ==
    [dim_date     |-> csv_round_trip(transform_dim_date(CleanDims.dim_date)),
     dim_product  |-> csv_round_trip(transform_dim_product(CleanDims.dim_product)),
     dim_customer |-> csv_round_trip(transform_dim_customer(CleanDims.dim_customer)),
     dim_employee |-> csv_round_trip(transform_dim_employee(CleanDims.dim_employee)),
     dim_region   |-> csv_round_trip(transform_dim_region(CleanDims.dim_region)),
     fact_sales   |-> <<ProcessedFact(CleanFact)>>]

ProcessedDirs ==
    {[CleanProcessed EXCEPT !.dim_date = t] : t \in Upto2(CheckedDateRows)}
    \cup {[CleanProcessed EXCEPT !.fact_sales = t] : t \in UpTo(CheckedFactRows, MaxFactRows)}

InitChecks ==
    /\ rawdir = [files |-> NoTables, missing |-> TableNames]
    /\ pc = "start"
    /\ raw = NoTables
    /\ mem = NoTables
    /\ \E files \in ProcessedDirs : processed = [written |-> TableNames, files |-> files]
    /\ vpc = "idle"
    /\ report = <<>>
    /\ kpc = "none"
    /\ calc = NoCalc
    /\ calls = 0
    /\ out = NoOut
    /\ rag = NoRag

NextChecks == run_validation

SpecChecks == InitChecks /\ [][NextChecks]_vars

\* the raw directory the date enrichment is checked on: a dim_date with a
\* repeated key, a missing key or a missing month_number, the other
\* dimensions clean, and a fact table that varies in its date_key
EnrichDateRows ==
    {DateRow(Num(1), 1), DateRow(Num(2), 2), DateRow(Num(1), 2), DateRow(Null, 2),
     [DateRow(Num(2), 2) EXCEPT !.month_number = Null]}

InitEnrich ==
    /\ \E dates \in Upto2(EnrichDateRows), fact \in UpTo(KeyFactRows, MaxFactRows) :
          rawdir = [files |-> WithFact([CleanDims EXCEPT !.dim_date = dates], fact),
                    missing |-> {}]
    /\ Idle
    /\ rag = NoRag

SpecEnrich == InitEnrich /\ [][Next]_vars

---------------------------------------------------------------------------
(* Properties of the transform stage *)

DimKeys(tables, table, key) == {tables[table][j][key] : j \in 1..Len(tables[table])}

FactTransformed == pc \in {"fact", "done"}

FkPairs == {<<"date_key", "dim_date">>, <<"product_key", "dim_product">>,
            <<"customer_key", "dim_customer">>, <<"employee_key", "dim_employee">>,
            <<"region_key", "dim_region">>}

FkCheckOf(p) ==
    check_fk_integrity(mem.fact_sales, p[1], mem[p[2]], p[1], "fact_sales", p[2], <<>>)[1]

\* C1: every row transform_fact_sales returns has each of its five foreign
\* keys in the key column of the dimension table it was given, and
\* check_fk_integrity on that output against those tables passes with
\* row_count 0 for all five keys
C1_FactKeysInDimensions ==
    FactTransformed =>
        /\ \A i \in 1..Len(mem.fact_sales) : \A p \in FkPairs :
              mem.fact_sales[i][p[1]] \in DimKeys(mem, p[2], p[1])
        /\ \A p \in FkPairs : FkCheckOf(p).passed /\ FkCheckOf(p).row_count = 0

\* an orphan row was dropped and another row was kept
C1_Witness ==
    /\ pc = "fact"
    /\ mem.fact_sales # <<>>
    /\ \E i \in 1..Len(raw.fact_sales) : \E p \in FkPairs :
          raw.fact_sales[i][p[1]] \notin DimKeys(mem, p[2], p[1])

\* C2: in every row transform_fact_sales returns, is_revenue_eligible is False
\* exactly when order_status is "Cancelled" and True for every other status
C2_EligibleIffNotCancelled ==
    FactTransformed =>
        \A i \in 1..Len(mem.fact_sales) :
            LET r == mem.fact_sales[i]
            IN  /\ r.order_status = Str("Cancelled") => r.is_revenue_eligible = Bool(FALSE)
                /\ r.order_status # Str("Cancelled") => r.is_revenue_eligible = Bool(TRUE)

\* the output holds a cancelled row and a row of another status
C2_Witness ==
    /\ pc = "fact"
    /\ \E i, j \in 1..Len(mem.fact_sales) :
          /\ mem.fact_sales[i].order_status = Str("Cancelled")
          /\ mem.fact_sales[j].order_status = Str("cancelled")

NoNullIn(df, col) == \A i \in 1..Len(df) : ~IsNull(df[i][col])

NoDuplicateIn(df, col) == \A i, j \in 1..Len(df) : df[i][col] = df[j][col] => i = j

DimPk == {<<"dim_date", "date_key">>, <<"dim_product", "product_key">>,
          <<"dim_customer", "customer_key">>, <<"dim_employee", "employee_key">>,
          <<"dim_region", "region_key">>}

\* C8 as stated: whatever the raw tables contain, no written dimension table
\* has a null or a duplicate value in its primary-key column
C8_Original ==
    pc = "done" =>
        \A p \in DimPk : /\ NoNullIn(processed.files[p[1]], p[2])
                         /\ NoDuplicateIn(processed.files[p[1]], p[2])

\* C8 amended: the written dim_date never has a duplicate date_key, and a
\* written dimension table has no null and no duplicate primary key whenever
\* the raw table it comes from has none
C8_KeysCleanWhenRawClean ==
    pc = "done" =>
        /\ NoDuplicateIn(processed.files.dim_date, "date_key")
        /\ \A p \in DimPk :
              (NoNullIn(raw[p[1]], p[2]) /\ NoDuplicateIn(raw[p[1]], p[2]))
              => (/\ NoNullIn(processed.files[p[1]], p[2])
                  /\ NoDuplicateIn(processed.files[p[1]], p[2]))

\* a raw dim_date with a repeated key was written without the repetition
C8_Witness ==
    /\ pc = "done"
    /\ ~NoDuplicateIn(raw.dim_date, "date_key")
    /\ Len(processed.files.dim_date) = 1

NullCount(df, col) == Cardinality({i \in 1..Len(df) : IsNull(df[i][col])})

\* fewer than 1% of the rows are null in the column
NullRateBelow1Pct(df, col) == NullCount(df, col) = 0 \/ NullCount(df, col) * 100 < Len(df)

CriticalColumns == {"sales_key", "order_id", "date_key", "product_key", "customer_key",
                    "region_key", "employee_key", "sales_amount", "quantity"}

MeasuresNotNull(df) ==
    NoNullIn(df, "sales_amount") /\ NoNullIn(df, "cogs") /\ NoNullIn(df, "quantity")

\* C9 as stated: no returned row has a null sales_amount, cogs or quantity,
\* and no critical column of the written fact table is null in 1% or more
\* of the rows
C9_Original ==
    /\ FactTransformed => MeasuresNotNull(mem.fact_sales)
    /\ pc = "done" =>
          \A col \in CriticalColumns : NullRateBelow1Pct(processed.files.fact_sales, col)

\* C9 amended: no returned or written row has a null sales_amount, cogs or
\* quantity; a foreign key is null in a written row only if the written
\* dimension table holds a null key; sales_key and order_id are carried
\* over, so neither is null in the written table if it is not in the raw one
C9_MeasuresNeverNull ==
    /\ FactTransformed => MeasuresNotNull(mem.fact_sales)
    /\ pc = "done" =>
          /\ MeasuresNotNull(processed.files.fact_sales)
          /\ \A p \in FkPairs :
                NoNullIn(processed.files[p[2]], p[1])
                => NoNullIn(processed.files.fact_sales, p[1])
          /\ \A col \in {"sales_key", "order_id"} :
                NoNullIn(raw.fact_sales, col) => NoNullIn(processed.files.fact_sales, col)

\* rows with a null or non-numeric measure were dropped and a row was written
C9_Witness ==
    /\ pc = "done"
    /\ processed.files.fact_sales # <<>>
    /\ \E i \in 1..Len(raw.fact_sales) :
          \/ raw.fact_sales[i].quantity.k # "num"
          \/ raw.fact_sales[i].sales_amount.k # "num"
          \/ raw.fact_sales[i].cogs.k # "num"

---------------------------------------------------------------------------
(* Properties of the KPI calculator *)

Calculated == kpc = "ready" /\ calls >= 1

WrittenFact == processed.files.fact_sales

NotCancelled(fact) == SelectSeq(fact, LAMBDA r : r.order_status # Str("Cancelled"))

\* the result calculate_all recorded first for a KPI
ResultOf(kpi_id) ==
    calc.results[CHOOSE i \in 1..Len(calc.results) :
                    /\ calc.results[i].kpi_id = kpi_id
                    /\ \A j \in 1..(i - 1) : calc.results[j].kpi_id # kpi_id]

\* C3: kpi_total_revenue is the sum of sales_amount over exactly the
\* processed fact rows whose order_status is not "Cancelled"
C3_TotalRevenueOfNotCancelled ==
    Calculated =>
        /\ kpi_total_revenue(calc.eligible)
              = QInt(SumCol(NotCancelled(WrittenFact), "sales_amount"))
        /\ QEq(ResultOf("KPI-001").value,
               QInt(SumCol(NotCancelled(WrittenFact), "sales_amount")))

\* a cancelled row and a row of another status were written, and the KPI
\* was calculated
C3_Witness ==
    /\ Calculated
    /\ Len(NotCancelled(WrittenFact)) = 1
    /\ Len(WrittenFact) = 2
    /\ QLt(QInt(0), ResultOf("KPI-001").value)

\* C5: on a freshly constructed calculator calculate_all returns one result
\* per catalog entry, in catalog order, ten for the catalog of ten, each
\* with kpi_id, value and rag_status
C5_OneResultPerCatalogEntry ==
    (kpc = "ready" /\ calls = 1) =>
        /\ Len(calc.results) = Len(calc.kpi_defs)
        /\ Len(calc.results) = 10
        /\ \A i \in 1..Len(calc.results) :
              /\ calc.results[i].kpi_id = calc.kpi_defs[i].id
              /\ {"kpi_id", "value", "rag_status"} \subseteq DOMAIN calc.results[i]

\* the first call of calculate_all has returned, with graded and ungraded KPIs
C5_Witness ==
    /\ kpc = "ready"
    /\ calls = 1
    /\ \E i, j \in 1..Len(calc.results) :
          /\ calc.results[i].rag_status = "INFO"
          /\ calc.results[j].rag_status = "GREEN"

EligibleWritten == SelectSeq(WrittenFact, LAMBDA r : r.is_revenue_eligible = Bool(TRUE))

\* the distinct order_id values among the eligible rows
EligibleOrders ==
    {EligibleWritten[i].order_id : i \in 1..Len(EligibleWritten)} \ {Null}

\* C10: kpi_avg_order_value is the eligible revenue divided by the number of
\* distinct order_id values among eligible rows, and kpi_total_orders is
\* that number
C10_AvgOrderValuePerDistinctOrder ==
    Calculated =>
        /\ kpi_total_orders(calc.eligible) = QInt(Cardinality(EligibleOrders))
        /\ QEq(ResultOf("KPI-006").value, QInt(Cardinality(EligibleOrders)))
        /\ EligibleOrders # {} =>
              /\ QEq(kpi_avg_order_value(calc.eligible),
                     Q(SumCol(EligibleWritten, "sales_amount"), Cardinality(EligibleOrders)))
              /\ ResultOf("KPI-004").value
                    = RoundTo(Q(SumCol(EligibleWritten, "sales_amount"),
                                Cardinality(EligibleOrders)), 10000)

\* two eligible lines of one order were counted as one order
C10_Witness ==
    /\ Calculated
    /\ Len(EligibleWritten) = 2
    /\ Cardinality(EligibleOrders) = 1
    /\ EligibleWritten[1].order_id = EligibleWritten[2].order_id
    /\ QEq(ResultOf("KPI-004").value, QInt(SumCol(EligibleWritten, "sales_amount")))

---------------------------------------------------------------------------
(* Properties of the validation engine *)

Validated == vpc # "idle"

FailedWith(severity) ==
    {i \in 1..Len(report) : ~report[i].passed /\ report[i].severity = severity}

\* C6: run_validation exits with status 1 if and only if a recorded check
\* failed with severity ERROR, and returns True otherwise; failed WARNING
\* checks alone never cause the exit; print_summary is True exactly when the
\* errors list is empty
C6_ExitIffErrorFailed ==
    Validated =>
        /\ vpc = "exit1" <=> FailedWith("ERROR") # {}
        /\ vpc = "passed" <=> FailedWith("ERROR") = {}
        /\ print_summary(report) <=> errors(report) = <<>>
        /\ Len(errors(report)) = Cardinality(FailedWith("ERROR"))

\* a run with a failed WARNING check and no failed ERROR check returned True
C6_Witness ==
    /\ vpc = "passed"
    /\ FailedWith("WARNING") # {}
    /\ FailedWith("ERROR") = {}

\* C7 as stated: the PASSED announcement and the True return happen only
\* when every recorded check has passed
C7_Original == vpc = "passed" => \A i \in 1..Len(report) : report[i].passed

\* C7 amended: the PASSED announcement and the True return happen only when
\* every recorded check of severity ERROR has passed; the checks that failed
\* are then all of severity WARNING
C7_PassedOnlyWithoutErrors ==
    vpc = "passed" =>
        \A i \in 1..Len(report) : ~report[i].passed => report[i].severity = "WARNING"

\* the announcement was made while a check had failed
C7_Witness ==
    /\ vpc = "passed"
    /\ \E i \in 1..Len(report) : ~report[i].passed /\ report[i].row_count > 0

---------------------------------------------------------------------------
(* Properties of rag_status *)

RagReturned == rag.result # ""

\* the threshold is satisfied by the value
Satisfied(value, t) ==
    \/ t.operator = ">=" /\ QFinite(value) /\ value.num >= t.value * value.den
    \/ t.operator = "<=" /\ QFinite(value) /\ value.num <= t.value * value.den
    \/ t.operator = ">"  /\ QFinite(value) /\ value.num > t.value * value.den
    \/ t.operator = "<"  /\ QFinite(value) /\ value.num < t.value * value.den
    \/ t.operator = "="  /\ QFinite(value) /\ value.num = t.value * value.den

\* excellent >= E, good >= G, warning >= W, with E >= G >= W
Descending(t) ==
    /\ t.excellent.operator = ">=" /\ t.good.operator = ">=" /\ t.warning.operator = ">="
    /\ t.excellent.value >= t.good.value
    /\ t.good.value >= t.warning.value

\* C4: rag_status is INFO for empty thresholds, else GREEN when the value
\* satisfies the excellent or the good threshold, else AMBER when it
\* satisfies the warning threshold, else RED; with >= thresholds E >= G >= W
\* that is GREEN for value >= G, AMBER for W <= value < G, RED for value < W
C4_RagStatusLabels ==
    RagReturned =>
        LET t == rag.thresholds
            v == rag.value
        IN  IF DOMAIN t = {} THEN rag.result = "INFO"
            ELSE /\ rag.result = IF Satisfied(v, t.excellent) \/ Satisfied(v, t.good)
                                 THEN "GREEN"
                                 ELSE IF Satisfied(v, t.warning) THEN "AMBER" ELSE "RED"
                 /\ (Descending(t) /\ QFinite(v)) =>
                       /\ v.num >= t.good.value * v.den => rag.result = "GREEN"
                       /\ (v.num >= t.warning.value * v.den /\ v.num < t.good.value * v.den)
                             => rag.result = "AMBER"
                       /\ v.num < t.warning.value * v.den => rag.result = "RED"

\* a value between the warning and the good threshold was labelled AMBER
C4_Witness ==
    /\ rag.result = "AMBER"
    /\ DOMAIN rag.thresholds # {}
    /\ Descending(rag.thresholds)
    /\ rag.thresholds.good.value > rag.thresholds.warning.value

---------------------------------------------------------------------------
(* Properties of the KPI values *)

\* every check of severity ERROR passes on the written tables
ErrorChecksPass ==
    /\ processed.written = TableNames
    /\ errors(validation_results(processed.files)) = <<>>

InPercentRange(q) == QLe(QInt(0), q) /\ QLe(q, QInt(100))

\* the row's gross_margin lies between 0 and its sales_amount
MarginWithinSales(r) ==
    /\ ~IsNull(r.gross_margin)
    /\ 0 <= r.gross_margin.n
    /\ r.gross_margin.n <= r.sales_amount.n

\* C11 as stated: on a fact table that passes every ERROR check,
\* kpi_gross_margin_pct lies between 0 and 100
C11_Original ==
    (Calculated /\ ErrorChecksPass) => InPercentRange(ResultOf("KPI-002").value)

\* C11 amended: on a fact table that passes every ERROR check and whose
\* eligible rows each have a gross_margin between 0 and their sales_amount,
\* kpi_gross_margin_pct lies between 0 and 100
C11_GrossMarginPctInRange ==
    (/\ Calculated
     /\ ErrorChecksPass
     /\ \A i \in 1..Len(EligibleWritten) : MarginWithinSales(EligibleWritten[i]))
    => /\ InPercentRange(kpi_gross_margin_pct(calc.eligible))
       /\ InPercentRange(ResultOf("KPI-002").value)

\* a validated table with eligible rows gave a margin strictly inside the range
C11_Witness ==
    /\ Calculated
    /\ ErrorChecksPass
    /\ EligibleWritten # <<>>
    /\ \A i \in 1..Len(EligibleWritten) : MarginWithinSales(EligibleWritten[i])
    /\ QLt(QInt(0), ResultOf("KPI-002").value)
    /\ QLt(ResultOf("KPI-002").value, QInt(100))

---------------------------------------------------------------------------
(* Properties of the report methods *)

Returned(method) == kpc = "ready" /\ out.method = method

\* the (year, month_number) of a returned trend row
TrendMonth(row) == <<row.year.n, row.month_number.n>>

RevenueOf(col, key) == SumCol(GroupRows(calc.eligible, col, key), "sales_amount")

\* what holds of the rows of top_products(n) or top_customers(n) whatever
\* the dimension file holds: at most n rows, each with the revenue of its
\* key, by revenue descending, no key left out with more revenue than a row
TopRowsRanked(col) ==
    LET rows == out.rows
        kept == {rows[i][col] : i \in 1..Len(rows)}
    IN  /\ Len(rows) <= out.n
        /\ kept \subseteq Values(calc.eligible, col)
        /\ \A i \in 1..Len(rows) : rows[i].revenue = RevenueOf(col, rows[i][col])
        /\ \A i, j \in 1..Len(rows) : i < j => rows[i].revenue >= rows[j].revenue
        /\ \A k \in Values(calc.eligible, col) \ kept :
              \A i \in 1..Len(rows) : RevenueOf(col, k) <= rows[i].revenue

\* the number of rows is min(n, number of distinct keys with eligible sales)
TopRowsCounted(col) ==
    Len(out.rows) = Min(out.n, Cardinality(Values(calc.eligible, col)))

\* C13 as stated: top_products(n) and top_customers(n) return min(n, number
\* of distinct products or customers with eligible sales) rows, ranked
C13_Original ==
    /\ Returned("top_products") =>
          TopRowsCounted("product_key") /\ TopRowsRanked("product_key")
    /\ Returned("top_customers") =>
          TopRowsCounted("customer_key") /\ TopRowsRanked("customer_key")

\* C13 amended: the rows are never more than n, ordered by revenue
\* descending, and no product (customer) left out has strictly higher
\* eligible revenue than one included; their number is min(n, number of
\* distinct products (customers) with eligible sales) whenever the written
\* dimension table has no duplicate key
C13_TopRowsRankedAndCut ==
    /\ Returned("top_products") =>
          /\ TopRowsRanked("product_key")
          /\ NoDuplicateIn(processed.files.dim_product, "product_key")
                => TopRowsCounted("product_key")
    /\ Returned("top_customers") =>
          /\ TopRowsRanked("customer_key")
          /\ NoDuplicateIn(processed.files.dim_customer, "customer_key")
                => TopRowsCounted("customer_key")

\* top_products(1) returned the product of higher revenue and left the
\* other one out
C13_Witness ==
    /\ Returned("top_products")
    /\ out.n = 1
    /\ Len(out.rows) = 1
    /\ Cardinality(Values(calc.eligible, "product_key")) = 2
    /\ \E k \in Values(calc.eligible, "product_key") :
          RevenueOf("product_key", k) < out.rows[1].revenue

\* the sum of revenue_share_pct over the returned rows, in hundredths
RECURSIVE ShareSum(_)
ShareSum(rows) ==
    IF rows = <<>> THEN 0
    ELSE Head(rows).revenue_share_pct.num + ShareSum(Tail(rows))

\* every share is the region's revenue over the total of the returned
\* rows, rounded to 2 decimals, and the shares sum to 100 within 1.0
SharesOfTotal ==
    LET rows  == out.rows
        total == SumRevenue(rows)
    IN  /\ \A i \in 1..Len(rows) :
              /\ rows[i].revenue = RevenueOf("region_key", rows[i].region_key)
              /\ rows[i].revenue_share_pct = RoundTo(Q(rows[i].revenue * 100, total), 100)
        /\ ShareSum(rows) >= 9900
        /\ ShareSum(rows) <= 10100

OneRowPerRegion ==
    /\ {out.rows[i].region_key : i \in 1..Len(out.rows)} = Values(calc.eligible, "region_key")
    /\ Len(out.rows) = Cardinality(Values(calc.eligible, "region_key"))

---------------------------------------------------------------------------
(* Properties of the generator *)

Generated == rawdir.missing = {}

\* gross_margin = sales_amount - cogs, to the cent
MarginIsSalesLessCogs(r) == r.gross_margin.n = r.sales_amount.n - r.cogs.n

\* gross_margin differs from sales_amount - cogs by less than 1.0 (100 cents)
MarginNearSalesLessCogs(r) ==
    LET diff == r.gross_margin.n - (r.sales_amount.n - r.cogs.n)
    IN  -100 < diff /\ diff < 100

\* C15: every row generate_sales produces has gross_margin = sales_amount -
\* cogs to the cent; transform_fact_sales carries the three columns of every
\* surviving row through unchanged; so in the processed fact table
\* gross_margin differs from sales_amount - cogs by less than 1.0 in more
\* than 99% of the rows
C15_GrossMarginConsistent ==
    /\ Generated =>
          \A i \in 1..Len(rawdir.files.fact_sales) :
              MarginIsSalesLessCogs(rawdir.files.fact_sales[i])
    /\ pc \in {"fact", "done"} =>
          \A i \in 1..Len(mem.fact_sales) :
              \E j \in 1..Len(raw.fact_sales) :
                  /\ raw.fact_sales[j].sales_key = mem.fact_sales[i].sales_key
                  /\ raw.fact_sales[j].gross_margin = mem.fact_sales[i].gross_margin
                  /\ raw.fact_sales[j].sales_amount = mem.fact_sales[i].sales_amount
                  /\ raw.fact_sales[j].cogs = mem.fact_sales[i].cogs
    /\ pc = "done" =>
          LET fact == processed.files.fact_sales
              near == {i \in 1..Len(fact) : MarginNearSalesLessCogs(fact[i])}
          IN  Cardinality(near) * 100 > 99 * Len(fact)

\* a generated table of two lines, one sold below its cost after a discount
\* with a price rounded to the cent, went through the pipeline whole
C15_Witness ==
    /\ pc = "done"
    /\ Len(rawdir.files.fact_sales) = 2
    /\ Len(processed.files.fact_sales) = 2
    /\ \E i \in 1..2 :
          /\ processed.files.fact_sales[i].gross_margin.n < 0
          /\ processed.files.fact_sales[i].discount_pct.n > 0

---------------------------------------------------------------------------
(* Properties of kpi_discount_rate *)

\* every eligible row of the written fact table has a discount_pct in [0, 1]
DiscountsInUnitRange ==
    \A i \in 1..Len(EligibleWritten) :
        /\ ~IsNull(EligibleWritten[i].discount_pct)
        /\ 0 <= EligibleWritten[i].discount_pct.n
        /\ EligibleWritten[i].discount_pct.n <= 1

\* C16 as stated: whenever every eligible row has a discount_pct in [0, 1],
\* the empty set of eligible rows included, kpi_discount_rate is the mean of
\* discount_pct over the eligible rows times 100 and lies between 0 and 100
C16_Original ==
    (Calculated /\ DiscountsInUnitRange) =>
        /\ InPercentRange(kpi_discount_rate(calc.eligible))
        /\ InPercentRange(ResultOf("KPI-007").value)

---------------------------------------------------------------------------
(* Properties of transform_dim_customer *)

CanonicalSegments == {"Enterprise", "Mid-Market", "SMB", "Startup"}

\* the upper/lower-case spellings of a canonical label
CaseVariants(label) ==
    CASE label = "Enterprise" -> {"enterprise", "Enterprise", "ENTERPRISE"}
      [] label = "Mid-Market" -> {"mid-market", "Mid-Market", "MID-MARKET"}
      [] label = "SMB"        -> {"smb", "Smb", "SMB"}
      [] label = "Startup"    -> {"startup", "Startup", "STARTUP"}

IsCaseVariant(c) ==
    c.k = "str" /\ \E label \in CanonicalSegments : c.s \in CaseVariants(label)

DimsTransformed == pc \in {"dims", "fact", "done"}

\* C17 as stated, the part that fails: every segment of the transformed
\* dim_customer is one of Enterprise, Mid-Market, SMB, Startup
C17_Original ==
    DimsTransformed =>
        \A i \in 1..Len(mem.dim_customer) :
            /\ mem.dim_customer[i].segment.k = "str"
            /\ mem.dim_customer[i].segment.s \in CanonicalSegments

\* C17 amended: transform_dim_customer keeps every row; a segment that is a
\* case variant of a canonical label becomes that label, any other segment
\* (another label, a missing value) is left exactly as it was, so a
\* transformed segment is canonical exactly when the raw one was a case
\* variant; transforming the result again changes no segment
C17_SegmentStandardised ==
    DimsTransformed =>
        /\ Len(mem.dim_customer) = Len(raw.dim_customer)
        /\ \A i \in 1..Len(mem.dim_customer) :
              LET before == raw.dim_customer[i].segment
                  after  == mem.dim_customer[i].segment
              IN  /\ \A label \in CanonicalSegments :
                        (before.k = "str" /\ before.s \in CaseVariants(label))
                            => after = Str(label)
                  /\ ~IsCaseVariant(before) => after = before
                  /\ (after.k = "str" /\ after.s \in CanonicalSegments)
                        <=> IsCaseVariant(before)
        /\ \A i \in 1..Len(mem.dim_customer) :
              transform_dim_customer(mem.dim_customer)[i].segment
                  = mem.dim_customer[i].segment

\* an upper-case variant was standardised and another label was left alone
C17_Witness ==
    /\ DimsTransformed
    /\ Len(raw.dim_customer) = 2
    /\ raw.dim_customer[1].segment = Str("ENTERPRISE")
    /\ mem.dim_customer[1].segment = Str("Enterprise")
    /\ raw.dim_customer[2].segment = Str("Other")
    /\ mem.dim_customer[2].segment = Str("Other")

---------------------------------------------------------------------------
(* Properties of the order of the steps of run_pipeline *)

\* the product row lacks a numeric unit_cost or list_price
PriceMissing(p) == p.unit_cost.k # "num" \/ p.list_price.k # "num"

\* the product keys of the raw dim_product all of whose rows lack a price:
\* the products transform_dim_product drops
DroppedProducts ==
    {k \in DimKeys(raw, "dim_product", "product_key") :
        \A j \in 1..Len(raw.dim_product) :
            raw.dim_product[j].product_key = k => PriceMissing(raw.dim_product[j])}

\* C18: run_pipeline transforms the five dimensions before the fact table
\* and filters the fact table against the transformed dimensions: a product
\* dropped for a missing or non-numeric price is absent from the transformed
\* dim_product and no transformed fact row refers to it, and every foreign
\* key of the written fact_sales is a key of the written dimension file
C18_FactFilteredOnTransformedDimensions ==
    /\ pc \in {"start", "loaded", "dims", "exit1"} => mem.fact_sales = <<>>
    /\ pc = "dims" => mem.dim_product = transform_dim_product(raw.dim_product)
    /\ FactTransformed =>
          \A k \in DroppedProducts :
              /\ k \notin DimKeys(mem, "dim_product", "product_key")
              /\ \A i \in 1..Len(mem.fact_sales) : mem.fact_sales[i].product_key # k
    /\ pc = "done" =>
          \A p \in FkPairs :
              \A i \in 1..Len(processed.files.fact_sales) :
                  processed.files.fact_sales[i][p[1]]
                      \in DimKeys(processed.files, p[2], p[1])

\* a raw fact row referred to a product dropped for its price, and the
\* pipeline wrote a fact table without it
C18_Witness ==
    /\ pc = "done"
    /\ \E i \in 1..Len(raw.fact_sales) : raw.fact_sales[i].product_key \in DroppedProducts
    /\ \E i \in 1..Len(raw.fact_sales) : raw.fact_sales[i].product_key \notin DroppedProducts
    /\ Len(processed.files.fact_sales) >= 1
    /\ Len(processed.files.fact_sales) < Len(raw.fact_sales)

---------------------------------------------------------------------------
(* Properties of a run with a raw file missing *)

\* C19: if one of the six raw files is missing, run_pipeline exits with
\* status 1 before any transform and before any save: the run never gets
\* past its load step, no table is transformed and no processed file is
\* written; a run that exited has transformed and written nothing
C19_MissingRawFileStopsRun ==
    /\ rawdir.missing # {} =>
          /\ pc \in {"start", "exit1"}
          /\ mem = NoTables
          /\ processed.written = {}
    /\ pc = "exit1" =>
          /\ rawdir.missing # {}
          /\ raw = NoTables
          /\ mem = NoTables
          /\ processed.written = {}

\* a run on a raw directory that lacks fact_sales has exited with status 1
C19_Witness ==
    /\ pc = "exit1"
    /\ "fact_sales" \in rawdir.missing
    /\ rawdir.files.dim_date # <<>>

---------------------------------------------------------------------------
(* Properties of the ratio KPIs *)

\* num / den * scale, or 0.0 when den is not greater than 0
GuardedRatio(num, den, scale) == IF den > 0 THEN Q(num * scale, den) ELSE QInt(0)

\* calculate_all recorded the expected value, rounded to 4 decimals
Recorded(kpi_id, expected) == ResultOf(kpi_id).value = RoundTo(expected, 10000)

EligibleRevenue == SumCol(EligibleWritten, "sales_amount")

EligibleMonths == MonthKeys(calc.eligible)

\* the last month with eligible sales, and the one before it
LastMonth ==
    CHOOSE m \in EligibleMonths : \A b \in EligibleMonths \ {m} : MonthBefore(b, m)

PreviousMonth ==
    CHOOSE p \in EligibleMonths \ {LastMonth} :
        \A b \in EligibleMonths \ {LastMonth, p} : MonthBefore(b, p)

ExpectedGrowth ==
    IF Cardinality(EligibleMonths) < 2 THEN QInt(0)
    ELSE LET cur  == MonthRevenue(calc.eligible, LastMonth)
             prev == MonthRevenue(calc.eligible, PreviousMonth)
         IN  GuardedRatio(cur - prev, prev, 100)

\* the revenue of the eligible rows that have a product_key
RevenueByProduct ==
    SumCol(SelectSeq(EligibleWritten, LAMBDA r : ~IsNull(r.product_key)), "sales_amount")

\* C20: each ratio KPI is 0.0 when its denominator is not greater than 0 and
\* numerator / denominator * 100 otherwise (the plain quotient per order and
\* per employee); kpi_revenue_growth_mom is 0.0 with fewer than two months of
\* eligible sales or a previous month's revenue not greater than 0, and
\* otherwise the change between the last two months in (year, month) order
C20_RatioKpisGuardDenominator ==
    Calculated =>
        /\ Recorded("KPI-002", GuardedRatio(SumCol(EligibleWritten, "gross_margin"),
                                            EligibleRevenue, 100))
        /\ Recorded("KPI-003", ExpectedGrowth)
        /\ Recorded("KPI-004", GuardedRatio(EligibleRevenue,
                                            Cardinality(EligibleOrders), 1))
        /\ Recorded("KPI-005", GuardedRatio(EligibleRevenue,
                                            SumCol(EligibleWritten, "target_amount"), 100))
        /\ Recorded("KPI-008", GuardedRatio(EligibleRevenue,
                        Cardinality(Values(EligibleWritten, "employee_key")), 1))
        /\ Cardinality(Values(EligibleWritten, "product_key")) <= TopN
              => Recorded("KPI-010", GuardedRatio(RevenueByProduct, RevenueByProduct, 100))
        /\ \A kpi_id \in {"KPI-002", "KPI-003", "KPI-004", "KPI-005", "KPI-008", "KPI-010"} :
              QFinite(ResultOf(kpi_id).value)

\* two months of eligible sales, the earlier one with a revenue of 0: the
\* growth is the guard's 0.0 while the gross margin and the target
\* attainment are quotients
C20_Witness ==
    /\ Calculated
    /\ Cardinality(EligibleMonths) = 2
    /\ MonthRevenue(calc.eligible, PreviousMonth) = 0
    /\ MonthRevenue(calc.eligible, LastMonth) > 0
    /\ QEq(ResultOf("KPI-003").value, QInt(0))
    /\ ResultOf("KPI-002").value.num > 0
    /\ ResultOf("KPI-005").value.num > 0

---------------------------------------------------------------------------
(* Properties of repeated calls of calculate_all *)

\* the catalog entries the dispatcher knows, in catalog order
MappedDefs == SelectSeq(calc.kpi_defs, LAMBDA d : d.id \in KPI_MAP)

\* C21 as stated: after any number of consecutive calls of calculate_all on
\* one KPICalculator, the list the last call returned holds exactly one
\* result per mapped catalog KPI, in catalog order
C21_Original ==
    (kpc = "ready" /\ calls >= 1) =>
        /\ Len(calc.results) = Len(MappedDefs)
        /\ \A i \in 1..Len(calc.results) : calc.results[i].kpi_id = MappedDefs[i].id

---------------------------------------------------------------------------
(* Properties of the sequence of checks of run_validation *)

\* the table and the name of every result, in report order
NamesOf(results) ==
    [i \in 1..Len(results) |-> <<results[i].table, results[i].check_name>>]

\* the number of results a report holds for a table
ResultsFor(results, table) ==
    Cardinality({i \in 1..Len(results) : results[i].table = table})

ChecksPerTable ==
    [dim_date |-> 9, dim_product |-> 10, dim_customer |-> 6, dim_employee |-> 5,
     dim_region |-> 6, fact_sales |-> 24]

PrimaryKey ==
    [dim_date |-> "date_key", dim_product |-> "product_key",
     dim_customer |-> "customer_key", dim_employee |-> "employee_key",
     dim_region |-> "region_key", fact_sales |-> "sales_key"]

\* the position of a table in the order run_validation validates them
TableOrder(table) == CHOOSE i \in 1..Len(TABLES) : TABLES[i] = table

---------------------------------------------------------------------------
(* Properties of the three groups of a report *)

\* the positions of the report whose result is in a list of results
FailedAs(severity) ==
    {i \in 1..Len(report) : ~report[i].passed /\ report[i].severity = severity}

PassedAt == {i \in 1..Len(report) : report[i].passed}

\* C23: after run_validation every result of the report is counted in
\* exactly one of passed, errors, warnings: the three counts add up to the
\* number of results, and a failed result is an error or a warning
C23_ResultsPartitioned ==
    Validated =>
        /\ passed_count(report) + Len(errors(report)) + Len(warnings(report)) = Len(report)
        /\ passed_count(report) = Cardinality(PassedAt)
        /\ Len(errors(report)) = Cardinality(FailedAs("ERROR"))
        /\ Len(warnings(report)) = Cardinality(FailedAs("WARNING"))
        /\ PassedAt \cup FailedAs("ERROR") \cup FailedAs("WARNING") = 1..Len(report)
        /\ PassedAt \cap FailedAs("ERROR") = {}
        /\ PassedAt \cap FailedAs("WARNING") = {}
        /\ FailedAs("ERROR") \cap FailedAs("WARNING") = {}

\* a report with results in all three groups, the segment warning among them
C23_Witness ==
    /\ Validated
    /\ PassedAt # {}
    /\ FailedAs("ERROR") # {}
    /\ \E i \in FailedAs("WARNING") : report[i].check_name = Named("valid_segment_values", "")

---------------------------------------------------------------------------
(* Properties of the recorded results *)

\* the cell is a number strictly below min_val or strictly above max_val
StrictlyOutside(c, min_val, max_val) ==
    /\ c.k = "num"
    /\ \/ (min_val # None /\ c.n * min_val.den < min_val.num)
       \/ (max_val # None /\ c.n * max_val.den > max_val.num)

\* the number of offending rows of the table for one of the four generic
\* checks: null cells, occurrences of a key after its first, orphan rows,
\* out-of-range rows
Offending(result) ==
    LET df   == processed.files[result.table]
        name == result.check_name
    IN  CASE name.kind = "no_nulls" ->
                Cardinality({i \in 1..Len(df) : df[i][name.col] = Null})
          [] name.kind = "no_duplicate_pk" ->
                Len(df) - Cardinality({df[i][name.col] : i \in 1..Len(df)})
          [] name.kind = "fk" ->
                Cardinality({i \in 1..Len(df) :
                    df[i][name.col] \notin DimKeys(processed.files, name.ref_table,
                                                   name.ref_col)})
          [] name.kind = "range" ->
                Cardinality({i \in 1..Len(df) :
                    StrictlyOutside(df[i][name.col], name.min_val, name.max_val)})

GenericChecks == {"no_nulls", "no_duplicate_pk", "fk", "range"}

\* C24: every recorded result has passed true exactly when its row_count is
\* 0 and the message "OK" exactly when it passed; for check_no_nulls,
\* check_no_duplicates, check_fk_integrity and check_value_range the
\* row_count is the number of offending rows
C24_ResultFieldsConsistent ==
    Validated =>
        \A i \in 1..Len(report) :
            /\ report[i].passed <=> report[i].row_count = 0
            /\ report[i].message = "OK" <=> report[i].passed
            /\ report[i].check_name.kind \in GenericChecks
                  => report[i].row_count = Offending(report[i])

\* a key occurring twice was counted once by the duplicate check, a no-null
\* check counted a null cell and a foreign-key check counted an orphan row
C24_Witness ==
    /\ Validated
    /\ \E i \in 1..Len(report) :
          /\ report[i].check_name.kind = "no_duplicate_pk"
          /\ report[i].row_count = 1
    /\ \E i \in 1..Len(report) :
          /\ report[i].check_name.kind = "no_nulls"
          /\ report[i].row_count >= 1
    /\ \E i \in 1..Len(report) :
          /\ report[i].check_name = CheckName("fk", "product_key", "dim_product",
                                              "product_key", None, None)
          /\ report[i].row_count = 1
          /\ report[i].message # "OK"

---------------------------------------------------------------------------
(* Properties of check_value_range *)

\* the cell is missing or lies within the bounds, each bound included and a
\* None bound not limiting
WithinBounds(c, min_val, max_val) ==
    c.k = "num" =>
        /\ (min_val = None \/ min_val.num <= c.n * min_val.den)
        /\ (max_val = None \/ c.n * max_val.den <= max_val.num)

RangeResults == {i \in 1..Len(report) : report[i].check_name.kind = "range"}

\* the range result recorded for a column of a table
RangeResult(table, col) ==
    report[CHOOSE i \in RangeResults :
              report[i].table = table /\ report[i].check_name.col = col]

\* the values a column of a processed table holds
ColumnValues(table, col) ==
    {processed.files[table][i][col] : i \in 1..Len(processed.files[table])}

\* C25: check_value_range passes exactly when every value of the column lies
\* within the bounds, both included, a None bound being no bound; so a
\* column holding only values equal to a bound passes (month_number 1 and
\* 12, day_of_month 1 and 31, discount_pct 0 and 1); the result carries the
\* severity the caller gave, ERROR for every range check of run_validation
C25_RangeBoundsInclusive ==
    Validated =>
        /\ \A i \in RangeResults :
              LET df   == processed.files[report[i].table]
                  name == report[i].check_name
              IN  /\ report[i].passed
                        <=> \A k \in 1..Len(df) :
                               WithinBounds(df[k][name.col], name.min_val, name.max_val)
                  /\ report[i].severity = "ERROR"
        /\ ColumnValues("dim_date", "month_number") \subseteq {Num(1), Num(12)}
              => RangeResult("dim_date", "month_number").passed
        /\ ColumnValues("dim_date", "day_of_month") \subseteq {Num(1), Num(31)}
              => RangeResult("dim_date", "day_of_month").passed
        /\ ColumnValues("fact_sales", "discount_pct") \subseteq {Num(0), Num(1)}
              => RangeResult("fact_sales", "discount_pct").passed
        /\ Cardinality(RangeResults) = 10

\* a dim_date whose month_number, day_of_month and year all sit on a bound
\* passed its three range checks
C25_Witness ==
    /\ Validated
    /\ ColumnValues("dim_date", "month_number") = {Num(1), Num(12)}
    /\ ColumnValues("dim_date", "day_of_month") = {Num(1), Num(31)}
    /\ ColumnValues("dim_date", "year") = {Num(2000), Num(2030)}
    /\ RangeResult("dim_date", "month_number").passed
    /\ RangeResult("dim_date", "day_of_month").passed
    /\ RangeResult("dim_date", "year").passed

---------------------------------------------------------------------------
(* Properties of the date enrichment of KPICalculator.__init__ *)

Enrichment == kpc = "ready"

\* the enriched rows are the eligible rows of the written fact table, one
\* for one and in the same order
OneEnrichedRowPerEligibleRow ==
    /\ Len(calc.eligible) = Len(EligibleWritten)
    /\ \A i \in 1..Len(calc.eligible) :
          /\ calc.eligible[i].sales_key = EligibleWritten[i].sales_key
          /\ calc.eligible[i].date_key = EligibleWritten[i].date_key
          /\ calc.eligible[i].sales_amount = EligibleWritten[i].sales_amount

EveryEnrichedRowDated ==
    \A i \in 1..Len(calc.eligible) :
        ~IsNull(calc.eligible[i].year) /\ ~IsNull(calc.eligible[i].month_number)

\* the revenue of all months together
RECURSIVE RevenueOfMonths(_)
RevenueOfMonths(months) ==
    IF months = {} THEN 0
    ELSE LET m == CHOOSE x \in months : TRUE
         IN  MonthRevenue(calc.eligible, m) + RevenueOfMonths(months \ {m})

---------------------------------------------------------------------------
(* Properties of the arguments rag_status reads *)

\* the directions and critical thresholds a second call may be given
OtherDirections == RagDirections \cup {"", "neutral"}

OtherCriticals == {Threshold(op, v) : op \in RagOperators, v \in {0, 2, 4}}

GradedLevels == {"excellent", "good", "warning"}

\* C27: the label rag_status returned is the label of every call with the
\* same value and the same excellent, good and warning thresholds, whatever
\* its direction and its critical threshold; a threshold whose operator is
\* not one of >=, <=, >, <, = is not satisfied, so with three such
\* thresholds the label is RED
C27_RagReadsThreeThresholds ==
    RagReturned =>
        /\ \A d \in OtherDirections :
              /\ rag_status(rag.value, rag.thresholds, d) = rag.result
              /\ DOMAIN rag.thresholds # {} =>
                    \A c \in OtherCriticals :
                        rag_status(rag.value, [rag.thresholds EXCEPT !.critical = c], d)
                            = rag.result
        /\ DOMAIN rag.thresholds # {} =>
              /\ \A level \in GradedLevels :
                    rag.thresholds[level].operator \notin OPERATORS
                        => ~rag_check(rag.value, rag.thresholds[level].operator,
                                      rag.thresholds[level].value)
              /\ (\A level \in GradedLevels : rag.thresholds[level].operator \notin OPERATORS)
                    => rag.result = "RED"
              /\ (/\ rag.thresholds.excellent.operator \notin OPERATORS
                  /\ rag.thresholds.good.operator \notin OPERATORS
                  /\ Satisfied(rag.value, rag.thresholds.warning))
                    => rag.result = "AMBER"

\* a lower-is-better call whose value met the critical threshold and whose
\* excellent threshold had an unknown operator returned GREEN
C27_Witness ==
    /\ RagReturned
    /\ rag.direction = "lower_is_better"
    /\ DOMAIN rag.thresholds # {}
    /\ Satisfied(rag.value, rag.thresholds.critical)
    /\ rag.thresholds.excellent.operator \notin OPERATORS
    /\ rag.result = "GREEN"

---------------------------------------------------------------------------
(* Properties of margin_band *)

\* the margin percentage (list_price - unit_cost) / list_price * 100 of a
\* product row with a positive list_price is below, or above, pct
MarginLess(p, pct) == (p.list_price.n - p.unit_cost.n) * 100 < pct * p.list_price.n

MarginMore(p, pct) == (p.list_price.n - p.unit_cost.n) * 100 > pct * p.list_price.n

\* the bands the labels allow for the product's margin percentage
BandsOf(p) ==
    {b \in {"Low (<20%)", "Medium (20-40%)", "High (40-60%)", "Premium (>60%)"} :
        \/ b = "Low (<20%)" /\ MarginLess(p, 20)
        \/ b = "Medium (20-40%)" /\ ~MarginLess(p, 20) /\ ~MarginMore(p, 40)
        \/ b = "High (40-60%)" /\ ~MarginLess(p, 40) /\ ~MarginMore(p, 60)
        \/ b = "Premium (>60%)" /\ MarginMore(p, 60)}

\* C28 as stated: every product transform_dim_product keeps has the band
\* its label states for its margin percentage (Low below 20, Medium from 20
\* to 40, High from 40 to 60, Premium above 60), and the rows removed are
\* exactly those without a numeric unit_cost or list_price
C28_Original ==
    DimsTransformed =>
        /\ \A i \in 1..Len(mem.dim_product) :
              LET p == mem.dim_product[i]
              IN  p.list_price.n > 0 =>
                     /\ p.margin_band.k = "str"
                     /\ p.margin_band.s \in BandsOf(p)
        /\ Len(mem.dim_product)
              = Cardinality({j \in 1..Len(raw.dim_product) : ~PriceMissing(raw.dim_product[j])})

---------------------------------------------------------------------------
(* Frame properties of the transforms *)

NumericColumns == {"quantity", "unit_price", "discount_pct", "sales_amount", "cogs",
                   "gross_margin", "target_amount"}

DerivedColumns == {"gross_margin_pct", "target_attainment_pct", "discount_impact",
                   "is_revenue_eligible"}

\* the raw fact row has each of its five keys in the transformed dimension
\* and a numeric sales_amount, cogs and quantity
KeptByTransform(r) ==
    /\ \A p \in FkPairs : r[p[1]] \in DimKeys(mem, p[2], p[1])
    /\ \A col \in {"sales_amount", "cogs", "quantity"} : r[col].k = "num"

\* the value of a raw cell after the cast of its column
AfterCast(r, col) ==
    IF col \in NumericColumns /\ r[col].k # "num" THEN Null ELSE r[col]

\* C29: the rows transform_fact_sales returns are exactly the input rows
\* that have their five foreign keys in the dimensions and a sales_amount,
\* cogs and quantity that are not null after the numeric cast, in their
\* original order, each once, with every original column as it was apart
\* from the cast and with the derived columns added; the raw tables and the
\* transformed dimensions are what they were before the call
C29_TransformOnlyFiltersAndDerives ==
    /\ FactTransformed =>
          LET kept == SelectSeq(raw.fact_sales, KeptByTransform)
          IN  /\ Len(mem.fact_sales) = Len(kept)
              /\ \A i \in 1..Len(mem.fact_sales) :
                    /\ DOMAIN mem.fact_sales[i] = DOMAIN kept[i] \cup DerivedColumns
                    /\ \A col \in DOMAIN kept[i] :
                          mem.fact_sales[i][col] = AfterCast(kept[i], col)
              /\ mem.dim_date = transform_dim_date(raw.dim_date)
              /\ mem.dim_product = transform_dim_product(raw.dim_product)
              /\ mem.dim_customer = transform_dim_customer(raw.dim_customer)
              /\ mem.dim_employee = transform_dim_employee(raw.dim_employee)
              /\ mem.dim_region = transform_dim_region(raw.dim_region)
    /\ pc \in {"loaded", "dims", "fact", "done"} => raw = rawdir.files

\* of three raw rows the first lost its place to a foreign key or a measure
\* and the other two were returned in their order, one with a gross_margin
\* that is not sales_amount - cogs
C29_Witness ==
    /\ FactTransformed
    /\ Len(raw.fact_sales) = 3
    /\ Len(mem.fact_sales) = 2
    /\ ~KeptByTransform(raw.fact_sales[1])
    /\ mem.fact_sales[1].sales_key = raw.fact_sales[2].sales_key
    /\ mem.fact_sales[2].sales_key = raw.fact_sales[3].sales_key
    /\ mem.fact_sales[1].sales_key # mem.fact_sales[2].sales_key
    /\ \E i \in 1..2 :
          mem.fact_sales[i].gross_margin.n
              # mem.fact_sales[i].sales_amount.n - mem.fact_sales[i].cogs.n

---------------------------------------------------------------------------
(* generate_sales and the pipeline on its output *)

GeneratedFact == rawdir.files.fact_sales

OrderColumns == {"order_id", "date_key", "customer_key", "employee_key", "region_key",
                 "order_status"}

\* the lines of one order agree on every column drawn once per order
LinesShareOrder(fact) ==
    \A i, j \in 1..Len(fact) :
        fact[i].order_id = fact[j].order_id =>
            \A col \in OrderColumns : fact[i][col] = fact[j][col]

\* C30: every line generate_sales makes takes its five foreign keys from the
\* generated dimension tables, sales_key runs 1..N over all lines, the lines
\* of one order share order_id, date, customer, employee, region and status,
\* quantity is at least 1 and discount_pct lies in [0, 0.25] (held in
\* hundredths); transform_fact_sales then drops no row of the generated fact
\* table, and the written fact table has unique sales_key, positive quantity
\* and order_status among the five valid statuses
C30_GeneratedDataReferentiallyComplete ==
    /\ Generated =>
          /\ \A i \in 1..Len(GeneratedFact) :
                /\ \A p \in FkPairs :
                      GeneratedFact[i][p[1]] \in DimKeys(rawdir.files, p[2], p[1])
                /\ GeneratedFact[i].sales_key = Num(i)
                /\ GeneratedFact[i].quantity.n >= 1
                /\ GeneratedFact[i].discount_pct.n \in 0..25
          /\ LinesShareOrder(GeneratedFact)
    /\ FactTransformed =>
          /\ Len(mem.fact_sales) = Len(raw.fact_sales)
          /\ \A i \in 1..Len(mem.fact_sales) :
                \A p \in FkPairs : mem.fact_sales[i][p[1]] \in DimKeys(mem, p[2], p[1])
    /\ pc = "done" =>
          /\ Len(WrittenFact) = Len(GeneratedFact)
          /\ NoDuplicateIn(WrittenFact, "sales_key")
          /\ \A i \in 1..Len(WrittenFact) :
                /\ WrittenFact[i].quantity.k = "num"
                /\ WrittenFact[i].quantity.n > 0
                /\ WrittenFact[i].order_status \in valid_statuses

\* two generated orders of different status, one of them with two lines on
\* different products, have gone through the pipeline and been written
C30_Witness ==
    /\ Generated
    /\ pc = "done"
    /\ Len(WrittenFact) >= 3
    /\ \E i, j \in 1..Len(WrittenFact) :
          /\ WrittenFact[i].order_id # WrittenFact[j].order_id
          /\ WrittenFact[i].order_status # WrittenFact[j].order_status
    /\ \E i, j \in 1..Len(WrittenFact) :
          /\ i # j
          /\ WrittenFact[i].order_id = WrittenFact[j].order_id
          /\ WrittenFact[i].product_key # WrittenFact[j].product_key

=============================================================================
